---- MODULE Spec2Model ----
(***************************************************************************)
(* OfflineService (src/src/utils/inventoryViewService.ts): the local       *)
(* cache, the pending-transaction queue kept in localStorage, and the      *)
(* synchronizer that drains it.  ScheduledReportService                    *)
(* (src/src/utils/scheduledReportService.ts): the fire-time computation,   *)
(* the single timeout and the report handler.  One browser tab, one event  *)
(* loop: every action below is one synchronous stretch of a handler, from  *)
(* a call, a timeout or the delivery of a network response to the next     *)
(* await or return.                                                        *)
(***************************************************************************)
EXTENDS Integers, Sequences, FiniteSets, TLC

\* ---------------------------------------------------------------- bounds

\* Entries ever enqueued in one behaviour (ids handed out).
MaxTx == 2

\* Commits the remote endpoint accepts in one behaviour.
MaxCommits == 2

\* Clock ticks in one behaviour (one tick is ten minutes).
MaxNow == 4

\* The attempts counters have no ceiling on the exception path of a sync
\* pass: a commit fails only while the attempts stored in the queue add up
\* to less than this.
MaxAttempts == 6

\* ------------------------------------------------------ program constants

\* CACHE_EXPIRY, in milliseconds.
CACHE_EXPIRY == 30 * 60 * 1000

\* The literal 5 of `transaction.attempts >= 5`.
RETRY_CEILING == 5

\* version: 1 of a CacheData record.
CACHE_VERSION == 1

\* Business payloads a caller may submit (TransactionPayload values).
Payloads == {"salida", "entrada"}

\* The call sites of syncPendingTransactions: the "sync now" button, the
\* host components' online handlers, the service's own auto-sync.
SyncCallers == {"manual", "host", "auto"}

\* Outcomes of one fetch of the commit endpoint: response.ok, a non-2xx
\* status, or a rejected promise (network exception, timeout).
Outcomes == {"ok", "http", "exception"}

\* Outcomes when the endpoint always answers.
HttpOutcomes == {"ok", "http"}

\* Outcomes of loadAndCacheData: both queries answered, or one failed.
FetchOutcomes == {"ok", "error"}

\* Row sets the remote reference-data endpoint may hold.
DataVersions == {"v1", "v2"}

NoItem == [none |-> TRUE]

NoRet == [at |-> "none"]

VARIABLES
  online,          \* navigator.onLine
  now,             \* Date.now(), in ticks
  storageFull,     \* localStorage.setItem throws (quota exceeded)
  lsCache,         \* localStorage['stockflow_cache'], or NoItem
  lsPending,       \* localStorage['stockflow_pending_transactions'], parsed
  nextId,          \* ids handed out so far + 1
  syncInProgress,  \* OfflineService.syncInProgress
  sync,            \* per call site: the locals of a syncPendingTransactions call
  pt,              \* the processTransaction call in flight, if any
  committed,       \* payloads the commit endpoint has accepted, in order
  remoteData,      \* the rows the reference-data endpoint holds
  gd,              \* the getData call in flight, if any
  last,            \* the step taken last: operation, argument, fetch outcome,
                   \* and what the call handed its caller if it ended
  timeoutId,       \* ScheduledReportService.timeoutId, 0 for null
  isActive,        \* ScheduledReportService.isActive
  currentConfig,   \* ScheduledReportService.currentConfig, or NoConfig
  timers,          \* the timeouts the platform holds armed for the service
  storeConfig,     \* the row of configuracion_alertas in the external store
  boot,            \* the initialize call in flight, if any
  handlers,        \* the fire handlers suspended in a network call, oldest first
  stopped,         \* stop() was called, and since then initialize neither
                   \* was called nor resumed and updateConfiguration was
                   \* not called
  disabled,        \* the last updateConfiguration carried a disabled
                   \* configuration, and since then initialize neither was
                   \* called nor resumed
  listening,       \* OfflineService.onlineStatusHandler is registered for the
                   \* window's 'online' event
  autoTimers,      \* the delays of the timeouts armed to call
                   \* autoSyncPendingTransactions, in arming order
  activeTab,       \* App's activeTab: the module that is mounted
  alertConfig,     \* the settings page's alertConfig, or NoConfig
  reportConfig,    \* the settings page's reportConfig (the form)
  savingConfig,    \* the settings handler awaiting the store, if any
  enq,             \* per browser tab: the addPendingTransaction call between
                   \* its read and its write of the shared store
  autoSyncEnabled  \* OfflineService.autoSyncEnabled

vars == <<online, now, storageFull, lsCache, lsPending, nextId, syncInProgress,
          sync, pt, committed, remoteData, gd, last, timeoutId, isActive,
          currentConfig, timers, storeConfig, boot, handlers, stopped, disabled,
          listening, autoTimers, activeTab, alertConfig, reportConfig,
          savingConfig, enq, autoSyncEnabled>>

pageVars == <<listening, autoTimers, activeTab, alertConfig, reportConfig,
              savingConfig, enq, autoSyncEnabled>>

schedVars == <<timeoutId, isActive, currentConfig, timers, storeConfig, boot,
               handlers, stopped, disabled>>

queueVars == <<lsPending, nextId, syncInProgress, sync, pt, committed>>

cacheVars == <<lsCache, remoteData, gd>>

Step(operation, argument, o, r) ==
  [op |-> operation, arg |-> argument, outcome |-> o, ret |-> r]

\* ------------------------------------------------------------ the queue

\* Date.now(), in milliseconds: the clock moves in ticks of ten minutes.
Date_now == now * (10 * 60 * 1000)

\* generateTransactionId: `offline_${Date.now()}_${random}`, a fresh id.
generateTransactionId == nextId

\* getPendingTransactions: the stored list, [] when the key is absent.
getPendingTransactions == lsPending

getPendingTransactionCount == Len(getPendingTransactions)

\* The PendingTransaction addPendingTransaction builds.
NewPending(transaction) ==
  [tx |-> transaction, id |-> generateTransactionId,
   createdAt |-> Date_now, attempts |-> 0]

AddPrepends(pending, transaction) == <<NewPending(transaction)>> \o pending

\* pending.push(pendingTransaction)
addPendingTransaction(pending, transaction) ==
  Append(pending, NewPending(transaction))

RemoveNothing(pending, transactionId) == pending

RemoveTruncates(pending, transactionId) ==
  SelectSeq(pending, LAMBDA t : t.id < transactionId)

\* pending.filter(t => t.id !== transactionId)
removePendingTransaction(pending, transactionId) ==
  SelectSeq(pending, LAMBDA t : t.id # transactionId)

\* pending.find(t => t.id === transactionId): the first match, 0 if none.
FindIndex(pending, transactionId) ==
  IF \E k \in DOMAIN pending : pending[k].id = transactionId
  THEN CHOOSE k \in DOMAIN pending :
         /\ pending[k].id = transactionId
         /\ \A j \in 1..(k - 1) : pending[j].id # transactionId
  ELSE 0

IncrementsAll(pending, transactionId) ==
  [k \in DOMAIN pending |-> [pending[k] EXCEPT !.attempts = @ + 1]]

\* transaction.attempts++ on the entry found, nothing when absent.
incrementTransactionAttempts(pending, transactionId) ==
  LET k == FindIndex(pending, transactionId)
  IN  IF k = 0 THEN pending
      ELSE [pending EXCEPT ![k].attempts = @ + 1]

RECURSIVE TotalAttempts(_)

\* The attempts counters of a list, added up.
TotalAttempts(pending) ==
  IF pending = <<>> THEN 0
  ELSE Head(pending).attempts + TotalAttempts(Tail(pending))

\* localStorage.setItem of the pending list, inside try/catch: the stored
\* list is replaced unless setItem throws.
StorePending(value) == IF storageFull THEN lsPending ELSE value

\* ------------------------------------------------- syncPendingTransactions

SyncIdle == [pc |-> "idle", pending |-> <<>>, i |-> 0, synced |-> 0, failed |-> 0]

SyncRet(where, s, f) == [at |-> where, synced |-> s, failed |-> f]

FlagIgnored == FALSE

\* if (this.syncInProgress) return { synced: 0, failed: 0 }
syncAlreadyRunning == syncInProgress

\* if (transaction.attempts >= 5), read from the snapshot taken when the
\* pass began: incrementTransactionAttempts updates a fresh parse of the
\* stored list, never the snapshot's object.
ceilingReached(transaction) == transaction.attempts >= RETRY_CEILING

SyncHandleCountsDropped(stored, transaction, o, s, f) ==
  CASE o = "ok" ->
         [stored |-> removePendingTransaction(stored, transaction.id),
          synced |-> s + 1, failed |-> f]
    [] o = "http" ->
         LET inc == incrementTransactionAttempts(stored, transaction.id)
         IN  IF ceilingReached(transaction)
             THEN [stored |-> removePendingTransaction(inc, transaction.id),
                   synced |-> s, failed |-> f + 1]
             ELSE [stored |-> inc, synced |-> s, failed |-> f + 1]
    [] o = "exception" ->
         [stored |-> incrementTransactionAttempts(stored, transaction.id),
          synced |-> s, failed |-> f + 1]

\* The body of the for loop after the await, for the snapshot entry
\* `transaction` and the outcome o of its fetch: the stored list and the
\* counters it leaves.  Every write goes through a fresh read of the store.
SyncHandle(stored, transaction, o, s, f) ==
  CASE o = "ok" ->
         [stored |-> removePendingTransaction(stored, transaction.id),
          synced |-> s + 1, failed |-> f]
    [] o = "http" ->
         LET inc == incrementTransactionAttempts(stored, transaction.id)
         IN  IF ceilingReached(transaction)
             THEN [stored |-> removePendingTransaction(inc, transaction.id),
                   synced |-> s, failed |-> (f + 1) - 1]
             ELSE [stored |-> inc, synced |-> s, failed |-> f + 1]
    [] o = "exception" ->
         [stored |-> incrementTransactionAttempts(stored, transaction.id),
          synced |-> s, failed |-> f + 1]

FlagStaysSet == TRUE

\* this.syncInProgress = false, after the loop.
flagAfterPass == FALSE

\* A call of syncPendingTransactions from call site c, up to its first
\* await (the fetch of the first snapshot entry) or its early return.
SyncCall(c) ==
  /\ sync[c].pc = "idle"
  /\ IF syncAlreadyRunning
     THEN /\ last' = Step("syncPendingTransactions", c, "none", SyncRet("busy", 0, 0))
          /\ UNCHANGED <<sync, syncInProgress>>
     ELSE LET pending == getPendingTransactions
          IN  IF Len(pending) = 0
              THEN /\ syncInProgress' = FALSE
                   /\ last' = Step("syncPendingTransactions", c, "none",
                                   SyncRet("empty", 0, 0))
                   /\ UNCHANGED sync
              ELSE /\ syncInProgress' = TRUE
                   /\ sync' = [sync EXCEPT ![c] =
                                 [pc |-> "fetch", pending |-> pending, i |-> 1,
                                  synced |-> 0, failed |-> 0]]
                   /\ last' = Step("syncPendingTransactions", c, "none", NoRet)
  /\ UNCHANGED <<online, now, storageFull, lsPending, nextId, pt, committed,
                 cacheVars>>
  /\ UNCHANGED schedVars
  /\ UNCHANGED pageVars

\* The fetch of call c's current entry settles with outcome o: the rest of
\* that loop iteration, then the next fetch or the end of the pass.
SyncResponse(c, o) ==
  /\ sync[c].pc = "fetch"
  /\ LET me == sync[c]
         transaction == me.pending[me.i]
         h == SyncHandle(getPendingTransactions, transaction, o, me.synced, me.failed)
     IN  /\ o = "ok" => Len(committed) < MaxCommits
         /\ o # "ok" => TotalAttempts(lsPending) < MaxAttempts
         /\ lsPending' = StorePending(h.stored)
         /\ committed' = IF o = "ok" THEN Append(committed, transaction.tx)
                                     ELSE committed
         /\ IF me.i < Len(me.pending)
            THEN /\ sync' = [sync EXCEPT ![c] =
                               [me EXCEPT !.i = @ + 1, !.synced = h.synced,
                                          !.failed = h.failed]]
                 /\ last' = Step("syncResponse", c, o, NoRet)
                 /\ UNCHANGED syncInProgress
            ELSE /\ sync' = [sync EXCEPT ![c] = SyncIdle]
                 /\ syncInProgress' = flagAfterPass
                 /\ last' = Step("syncResponse", c, o,
                                 SyncRet("end", h.synced, h.failed))
  /\ UNCHANGED <<online, now, storageFull, nextId, pt, cacheVars>>
  /\ UNCHANGED schedVars
  /\ UNCHANGED pageVars

\* The same call while the store cannot be read (getItem or JSON.parse
\* throws): getPendingTransactions catches and returns [], so a call that
\* gets past the flag takes the empty-queue return.
SyncCallUnreadable(c) ==
  /\ sync[c].pc = "idle"
  /\ IF syncAlreadyRunning
     THEN /\ last' = Step("syncPendingTransactions", c, "unreadable",
                          SyncRet("busy", 0, 0))
          /\ UNCHANGED syncInProgress
     ELSE /\ syncInProgress' = FALSE
          /\ last' = Step("syncPendingTransactions", c, "unreadable",
                          SyncRet("empty", 0, 0))
  /\ UNCHANGED <<online, now, storageFull, lsPending, nextId, sync, pt, committed,
                 cacheVars>>
  /\ UNCHANGED schedVars
  /\ UNCHANGED pageVars

\* The iteration removes its entry: after response.ok, or at the ceiling.
removes(transaction, o) ==
  o = "ok" \/ (o = "http" /\ ceilingReached(transaction))

\* The fetch of call c's current entry settles with outcome o while the
\* store cannot be read: incrementTransactionAttempts finds no entry in []
\* and writes nothing, removePendingTransaction filters [] and writes it,
\* and the counters move as ever.
SyncResponseUnreadable(c, o) ==
  /\ sync[c].pc = "fetch"
  /\ LET me == sync[c]
         transaction == me.pending[me.i]
         h == SyncHandle(<<>>, transaction, o, me.synced, me.failed)
     IN  /\ o = "ok" => Len(committed) < MaxCommits
         /\ lsPending' = IF removes(transaction, o) THEN StorePending(h.stored)
                                                    ELSE lsPending
         /\ committed' = IF o = "ok" THEN Append(committed, transaction.tx)
                                     ELSE committed
         /\ IF me.i < Len(me.pending)
            THEN /\ sync' = [sync EXCEPT ![c] =
                               [me EXCEPT !.i = @ + 1, !.synced = h.synced,
                                          !.failed = h.failed]]
                 /\ last' = Step("syncResponse", c, o, NoRet)
                 /\ UNCHANGED syncInProgress
            ELSE /\ sync' = [sync EXCEPT ![c] = SyncIdle]
                 /\ syncInProgress' = flagAfterPass
                 /\ last' = Step("syncResponse", c, o,
                                 SyncRet("end", h.synced, h.failed))
  /\ UNCHANGED <<online, now, storageFull, nextId, pt, cacheVars>>
  /\ UNCHANGED schedVars
  /\ UNCHANGED pageVars

\* A direct call of addPendingTransaction(transaction): the id of the new
\* entry is returned, and what setItem throws is rethrown.
AddCall(transaction) ==
  /\ nextId <= MaxTx
  /\ IF storageFull
     THEN /\ last' = Step("addPendingTransaction", transaction, "none",
                          [at |-> "throw"])
          /\ UNCHANGED <<lsPending, nextId>>
     ELSE /\ lsPending' = addPendingTransaction(getPendingTransactions, transaction)
          /\ nextId' = nextId + 1
          /\ last' = Step("addPendingTransaction", transaction, "none",
                          [at |-> "return", transactionId |-> generateTransactionId])
  /\ UNCHANGED <<online, now, storageFull, syncInProgress, sync, pt, committed,
                 cacheVars>>
  /\ UNCHANGED schedVars
  /\ UNCHANGED pageVars

\* A direct call of removePendingTransaction(transactionId).
RemoveCall(transactionId) ==
  /\ lsPending' = StorePending(removePendingTransaction(getPendingTransactions,
                                                        transactionId))
  /\ last' = Step("removePendingTransaction", transactionId, "none", NoRet)
  /\ UNCHANGED <<online, now, storageFull, nextId, syncInProgress, sync, pt,
                 committed, cacheVars>>
  /\ UNCHANGED schedVars
  /\ UNCHANGED pageVars

\* Failed commits and direct increments in a behaviour of the
\* specifications that are not about the retry ceiling.
MaxIncrements == 2

\* A direct call of incrementTransactionAttempts(transactionId).
IncrementCall(transactionId) ==
  /\ TotalAttempts(lsPending) < MaxIncrements
  /\ lsPending' = StorePending(incrementTransactionAttempts(getPendingTransactions,
                                                            transactionId))
  /\ last' = Step("incrementTransactionAttempts", transactionId, "none", NoRet)
  /\ UNCHANGED <<online, now, storageFull, nextId, syncInProgress, sync, pt,
                 committed, cacheVars>>
  /\ UNCHANGED schedVars
  /\ UNCHANGED pageVars

\* ------------------------------------------------------ processTransaction

PtIdle == [pc |-> "idle", tx |-> "none"]

\* What a processTransaction call hands its caller: the resolved value, or
\* the error it rejects with.
PtRet(how, off, tid) ==
  [at |-> how, success |-> how = "return", offline |-> off, transactionId |-> tid]

AlwaysOnline == TRUE

\* if (navigator.onLine)
navigatorOnLine == online

QueueOfflineRethrows(operation, transaction, o) ==
  /\ last' = Step(operation, transaction, o, PtRet("throw", TRUE, 0))
  /\ UNCHANGED <<lsPending, nextId>>

QueueOfflineSwallows(operation, transaction, o) ==
  IF storageFull
  THEN /\ last' = Step(operation, transaction, o,
                       PtRet("return", TRUE, generateTransactionId))
       /\ UNCHANGED <<lsPending, nextId>>
  ELSE /\ lsPending' = addPendingTransaction(getPendingTransactions, transaction)
       /\ nextId' = nextId + 1
       /\ last' = Step(operation, transaction, o,
                       PtRet("return", TRUE, generateTransactionId))

\* const transactionId = this.addPendingTransaction(transaction);
\* return { success: true, offline: true, transactionId }
\* addPendingTransaction rethrows what setItem throws, and neither call
\* site in processTransaction catches it.
QueueOffline(operation, transaction, o) ==
  IF storageFull
  THEN /\ last' = Step(operation, transaction, o, PtRet("throw", TRUE, 0))
       /\ UNCHANGED <<lsPending, nextId>>
  ELSE /\ lsPending' = addPendingTransaction(getPendingTransactions, transaction)
       /\ nextId' = nextId + 1
       /\ last' = Step(operation, transaction, o,
                       PtRet("return", TRUE, generateTransactionId))

\* A call of processTransaction, up to the await of its fetch (online) or
\* its return (offline).
ProcessTransactionCall(transaction) ==
  /\ pt.pc = "idle"
  /\ nextId <= MaxTx
  /\ IF navigatorOnLine
     THEN /\ pt' = [pc |-> "fetch", tx |-> transaction]
          /\ last' = Step("processTransaction", transaction, "none", NoRet)
          /\ UNCHANGED <<lsPending, nextId>>
     ELSE /\ QueueOffline("processTransaction", transaction, "none")
          /\ UNCHANGED pt
  /\ UNCHANGED <<online, now, storageFull, syncInProgress, sync, committed,
                 cacheVars>>
  /\ UNCHANGED schedVars
  /\ UNCHANGED pageVars

\* The immediate commit settles with outcome o: response.ok returns
\* { success: true, offline: false }; a non-2xx status is thrown as an Error
\* into the same catch as a rejected fetch, which queues the transaction.
ProcessTransactionResponse(o) ==
  /\ pt.pc = "fetch"
  /\ o = "ok" => Len(committed) < MaxCommits
  /\ pt' = PtIdle
  /\ IF o = "ok"
     THEN /\ committed' = Append(committed, pt.tx)
          /\ last' = Step("processTransactionResponse", pt.tx, o,
                          PtRet("return", FALSE, 0))
          /\ UNCHANGED <<lsPending, nextId>>
     ELSE /\ QueueOffline("processTransactionResponse", pt.tx, o)
          /\ UNCHANGED committed
  /\ UNCHANGED <<online, now, storageFull, syncInProgress, sync, cacheVars>>
  /\ UNCHANGED schedVars
  /\ UNCHANGED pageVars

\* ------------------------------------------------------------ a transfer

\* The payload was handed to processTransaction: its call is in flight, or
\* it is queued, or the endpoint holds it.
Submitted(transaction) ==
  \/ pt.tx = transaction
  \/ \E k \in DOMAIN lsPending : lsPending[k].tx = transaction
  \/ \E k \in DOMAIN committed : committed[k] = transaction

\* handleSubmit of a 'Transferencia', first leg:
\* await offlineService.processTransaction(salidaPayload)
SubmitSalida ==
  /\ ~Submitted("salida")
  /\ ~Submitted("entrada")
  /\ ProcessTransactionCall("salida")

\* handleSubmit, second leg, once the first call has resolved:
\* await offlineService.processTransaction(entradaPayload)
SubmitEntrada ==
  /\ Submitted("salida")
  /\ pt.pc = "idle"
  /\ ~Submitted("entrada")
  /\ ProcessTransactionCall("entrada")

\* ------------------------------------------------------------- the cache

StaleStamp(productos, inventario) ==
  [productos |-> productos, inventario |-> inventario,
   lastUpdated |-> 0, version |-> CACHE_VERSION]

\* The CacheData setCachedData builds.
NewCache(productos, inventario) ==
  [productos |-> productos, inventario |-> inventario,
   lastUpdated |-> Date_now, version |-> CACHE_VERSION]

ExpiredAtWindow(data) == Date_now - data.lastUpdated >= CACHE_EXPIRY

\* if (now - data.lastUpdated > this.CACHE_EXPIRY)
cacheExpired(data) == Date_now - data.lastUpdated > CACHE_EXPIRY

\* getCachedData: the stored entry, or null (NoItem) when the key is absent
\* or the entry has expired.
getCachedData ==
  IF lsCache = NoItem THEN NoItem
  ELSE IF cacheExpired(lsCache) THEN NoItem
  ELSE lsCache

KeepsExpired == lsCache

\* The store getCachedData leaves: an expired entry is cleared
\* (this.clearCache()) before null is returned.
CacheAfterRead ==
  IF lsCache # NoItem /\ cacheExpired(lsCache) THEN NoItem ELSE lsCache

\* hasCachedData: this.getCachedData() !== null
hasCachedData == getCachedData # NoItem

KeepsOldOnFailure(productos, inventario, retryWrites) ==
  IF ~storageFull THEN NewCache(productos, inventario) ELSE lsCache

\* setCachedData: the entry stamped with the current time replaces the
\* stored one; when setItem throws the cache is cleared and the write is
\* tried once more, and a second failure is only logged.
setCachedData(productos, inventario, retryWrites) ==
  IF ~storageFull THEN NewCache(productos, inventario)
  ELSE IF retryWrites THEN NewCache(productos, inventario)
  ELSE NoItem

\* The localStorage.setItem calls one setCachedData makes: the write of
\* line 402 and, when that one throws, the single retry of line 418.
setItemAttempts == IF storageFull THEN 2 ELSE 1

\* ------------------------------------------------------------------ getData

GdIdle == [pc |-> "idle", before |-> NoItem]

\* What a getData call hands its caller: the rows and fromCache, or the
\* error it rejects with ("offline": no cached data and offline; "network":
\* the error of the failed fetch).
GdData(productos, inventario, cached) ==
  [at |-> "return", productos |-> productos, inventario |-> inventario,
   fromCache |-> cached, error |-> "none"]

GdError(e) ==
  [at |-> "throw", productos |-> "none", inventario |-> "none",
   fromCache |-> FALSE, error |-> e]

\* const cached = this.getCachedData(); if (cached) return {..., fromCache:
\* true}, else the given error is thrown.
FromCacheOr(e) ==
  LET cached == getCachedData
  IN  IF cached # NoItem
      THEN GdData(cached.productos, cached.inventario, TRUE)
      ELSE GdError(e)

\* A call of getData(forceRefresh), up to the await of loadAndCacheData or
\* its return.  With a valid cache and no forced refresh the entry read at
\* line 614 is the one hasCachedData just saw, so the unguarded load of
\* line 624 is not reached within one instant of the clock.
GetDataCall(forceRefresh) ==
  /\ gd.pc = "idle"
  /\ IF ~navigatorOnLine
     THEN /\ last' = Step("getData", forceRefresh, "none", FromCacheOr("offline"))
          /\ lsCache' = CacheAfterRead
          /\ UNCHANGED gd
     ELSE IF forceRefresh \/ ~hasCachedData
     THEN /\ gd' = [pc |-> "fetch", before |-> lsCache]
          /\ lsCache' = IF forceRefresh THEN lsCache ELSE CacheAfterRead
          /\ last' = Step("getData", forceRefresh, "none", NoRet)
     ELSE /\ last' = Step("getData", forceRefresh, "none", FromCacheOr("network"))
          /\ lsCache' = CacheAfterRead
          /\ UNCHANGED gd
  /\ UNCHANGED <<online, now, storageFull, remoteData, queueVars>>
  /\ UNCHANGED schedVars
  /\ UNCHANGED pageVars

\* loadAndCacheData settles: both queries answered ("ok": the rows are
\* cached and returned with fromCache false) or one of them failed
\* ("error": the catch of getData falls back to getCachedData).  The step
\* is labelled with the number of setItem calls it made.
GetDataResponse(o, retryWrites) ==
  /\ gd.pc = "fetch"
  /\ gd' = GdIdle
  /\ IF o = "ok"
     THEN /\ lsCache' = setCachedData(remoteData, remoteData, retryWrites)
          /\ last' = Step("getDataResponse", setItemAttempts, o,
                          GdData(remoteData, remoteData, FALSE))
     ELSE /\ lsCache' = CacheAfterRead
          /\ last' = Step("getDataResponse", 0, o, FromCacheOr("network"))
  /\ UNCHANGED <<online, now, storageFull, remoteData, queueVars>>
  /\ UNCHANGED schedVars
  /\ UNCHANGED pageVars

\* ------------------------------------------------------------ the calendar
\* ScheduledReportService (src/src/utils/scheduledReportService.ts) computes
\* with Date in local time.  Instants are clock ticks (ten minutes) counted
\* from 00:00 of January 1st of a common year that begins on a Sunday, in a
\* zone with no daylight-saving shifts.

\* 24 * 60 * 60 * 1000 milliseconds, in ticks.
TicksPerDay == (24 * 60 * 60 * 1000) \div (10 * 60 * 1000)

TicksPerHour == TicksPerDay \div 24

\* The days of the months of the year.
MonthLengths == <<31, 28, 31, 30, 31, 30, 31, 31, 30, 31, 30, 31>>

\* Days in month m, months counted from 0 on through the years.
DaysInMonth(m) == MonthLengths[(m % 12) + 1]

RECURSIVE MonthStartDay(_)

\* Days from the epoch to the first day of month m.
MonthStartDay(m) == IF m = 0 THEN 0 ELSE MonthStartDay(m - 1) + DaysInMonth(m - 1)

\* Days from the epoch to the day of instant t.
DayIndex(t) == t \div TicksPerDay

\* Date.getMonth (with the year folded in): the month instant t lies in.
getMonth(t) ==
  CHOOSE m \in 0..(DayIndex(t) \div 28) :
    MonthStartDay(m) <= DayIndex(t) /\ DayIndex(t) < MonthStartDay(m + 1)

\* Date.getDate: the day of the month, from 1.
getDate(t) == DayIndex(t) - MonthStartDay(getMonth(t)) + 1

\* Date.getDay: the weekday, 0 for Sunday.
getDay(t) == DayIndex(t) % 7

\* new Date(year, month, date, hour, minute): a date beyond the end of the
\* month runs over into the following months.
NewDate(m, date, hour, minute) ==
  (MonthStartDay(m) + date - 1) * TicksPerDay + hour * TicksPerHour + minute \div 10

\* today.setHours(hour, minute, 0, 0) on the day of instant t.
setHours(t, hour, minute) ==
  DayIndex(t) * TicksPerDay + hour * TicksPerHour + minute \div 10

\* --------------------------------------------------------- configurations

NoConfig == [absent |-> TRUE]

NoDate == 0 - 1

\* reporte_hora values, 'HH:MM'.
Horas == {"00:00", "09:00"}

\* reporte_hora.split(':').map(Number)
splitHora(hora) ==
  CASE hora = "00:00" -> <<0, 0>>
    [] hora = "09:00" -> <<9, 0>>

\* dayMap of the weekly case.
dayMap ==
  [d \in {"sunday", "monday", "tuesday", "wednesday", "thursday", "friday",
          "saturday"} |->
     CASE d = "sunday" -> 0 [] d = "monday" -> 1 [] d = "tuesday" -> 2
       [] d = "wednesday" -> 3 [] d = "thursday" -> 4 [] d = "friday" -> 5
       [] d = "saturday" -> 6]

\* The day-of-month values of getDayOptions: (i + 1).toString(), i < 31.
MonthDays ==
  <<"1", "2", "3", "4", "5", "6", "7", "8", "9", "10", "11", "12", "13", "14",
    "15", "16", "17", "18", "19", "20", "21", "22", "23", "24", "25", "26",
    "27", "28", "29", "30", "31">>

\* parseInt(reporte_dia) on a day-of-month string.
parseInt(dia) == CHOOSE k \in DOMAIN MonthDays : MonthDays[k] = dia

AlertConfiguration(activado, frecuencia, dia, hora) ==
  [reporte_reposicion_activado |-> activado, reporte_frecuencia |-> frecuencia,
   reporte_dia |-> dia, reporte_hora |-> hora]

\* The row the migration creates: weekly, monday, 09:00, disabled.
DefaultConfig == AlertConfiguration(FALSE, "weekly", "monday", "09:00")

\* ------------------------------------------------- calculateNextReportTime

FindLast(t, dia, hour, minute) ==
  LET m == getMonth(t)
      possibleDates == <<dia, dia + 15, dia + DaysInMonth(m)>>
      ok(k) == NewDate(m, possibleDates[k], hour, minute) > t
  IN  IF ok(3) THEN possibleDates[3]
      ELSE IF ok(2) THEN possibleDates[2]
      ELSE IF ok(1) THEN possibleDates[1]
      ELSE 0

\* possibleDates.find(date => testDate > now): the first candidate day
\* number whose date in the current month lies after t, 0 when none does.
FindBiweekly(t, dia, hour, minute) ==
  LET m == getMonth(t)
      possibleDates == <<dia, dia + 15, dia + DaysInMonth(m)>>
      ok(k) == NewDate(m, possibleDates[k], hour, minute) > t
  IN  IF ok(1) THEN possibleDates[1]
      ELSE IF ok(2) THEN possibleDates[2]
      ELSE IF ok(3) THEN possibleDates[3]
      ELSE 0

ComparesAtOrAfter(t, today) == t >= today

\* now > today
pastToday(t, today) == t > today

OffsetFromSunday(config, t) == dayMap[config.reporte_dia]

\* let daysUntilTarget = targetDay - currentDay
daysBetween(config, t) == dayMap[config.reporte_dia] - getDay(t)

\* calculateNextReportTime with the given held configuration at instant t:
\* the next fire time, NoDate for null.
calculateNextReportTime(config, t) ==
  IF config = NoConfig THEN NoDate
  ELSE IF ~config.reporte_reposicion_activado THEN NoDate
  ELSE
    LET hour == splitHora(config.reporte_hora)[1]
        minute == splitHora(config.reporte_hora)[2]
        today == setHours(t, hour, minute)
        frecuencia == config.reporte_frecuencia
    IN  CASE frecuencia = "daily" ->
               IF pastToday(t, today) THEN today + TicksPerDay ELSE today
          [] frecuencia = "weekly" ->
               LET d == daysBetween(config, t)
                   daysUntilTarget ==
                     IF d < 0 \/ (d = 0 /\ pastToday(t, today)) THEN d + 7 ELSE d
               IN  today + daysUntilTarget * TicksPerDay
          [] frecuencia = "biweekly" ->
               LET biweeklyDay == parseInt(config.reporte_dia)
                   found == FindBiweekly(t, biweeklyDay, hour, minute)
               IN  IF found = 0
                   THEN NewDate(getMonth(t) + 1, biweeklyDay, hour, minute)
                   ELSE NewDate(getMonth(t), found, hour, minute)
          [] frecuencia = "monthly" ->
               LET monthlyDay == parseInt(config.reporte_dia)
                   thisMonth == NewDate(getMonth(t), monthlyDay, hour, minute)
               IN  IF t > thisMonth
                   THEN NewDate(getMonth(t) + 1, monthlyDay, hour, minute)
                   ELSE thisMonth
          [] OTHER -> NoDate

\* ------------------------------------------------------ scheduleNextReport

\* const maxTimeout = 2147483647, milliseconds.
maxTimeout == 2147483647

\* clearTimeout(id): the platform drops the timeout with that handle; a
\* handle of a timeout that has fired names nothing.
clearTimeout(armed, id) == {x \in armed : x.id # id}

\* The handle setTimeout returns: one no armed timeout carries.
NewHandle(armed) ==
  CHOOSE i \in 1..(Cardinality(armed) + 1) : \A x \in armed : x.id # i

\* setTimeout(callback, delay): the callback is the bridge
\* (scheduleNextReport only) or the report handler.
Timeout(armed, delay, isBridge) ==
  [id |-> NewHandle(armed), delay |-> delay, due |-> now + delay,
   bridge |-> isBridge]

\* What a stretch of scheduler code leaves in this.timeoutId and in the
\* platform's armed timeouts.
Armed(id, armed) == [timeoutId |-> id, timers |-> armed]

NeverTooFar(delay) == FALSE

\* if (timeUntilReport > maxTimeout), both sides in ticks
tooFar(delay) == delay > maxTimeout \div (10 * 60 * 1000)

\* scheduleTimeout(timeUntilReport, nextReportTime)
scheduleTimeout(armed, timeUntilReport) ==
  LET t == IF tooFar(timeUntilReport)
           THEN Timeout(armed, TicksPerDay, TRUE)
           ELSE Timeout(armed, timeUntilReport, FALSE)
  IN  Armed(t.id, armed \cup {t})

ArmsOverdue(delay) == FALSE

\* if (timeUntilReport <= 0)
notAhead(delay) == delay <= 0

KeepsArmed(armed, id) == armed

\* if (this.timeoutId) { clearTimeout(this.timeoutId); this.timeoutId = null }
clearHeld(armed, id) == IF id # 0 THEN clearTimeout(armed, id) ELSE armed

\* scheduleNextReport() with the configuration `config` held, this.timeoutId
\* = id and the timeouts `armed`.
scheduleNextReport(config, id, armed) ==
  LET cleared == clearHeld(armed, id)
      nextReportTime == calculateNextReportTime(config, now)
      timeUntilReport == nextReportTime - now
      timeUntilTomorrow == (nextReportTime + TicksPerDay) - now
  IN  IF nextReportTime = NoDate THEN Armed(0, cleared)
      ELSE IF notAhead(timeUntilReport)
      THEN IF timeUntilTomorrow > 0
           THEN scheduleTimeout(cleared, timeUntilTomorrow)
           ELSE Armed(0, cleared)
      ELSE scheduleTimeout(cleared, timeUntilReport)

AlwaysActivado(config) == TRUE

\* config?.reporte_reposicion_activado
activado(config) ==
  IF config = NoConfig THEN FALSE ELSE config.reporte_reposicion_activado

\* ------------------------------------------------- the scheduler's calls

\* Where a suspended call of the scheduler is: awaiting the answer of
\* AlertConfigService.getAlertConfiguration ("load") or, for a report
\* handler, the answer of its POST ("post").
CallIdle == [pc |-> "idle"]

Loading == [pc |-> "load"]

\* Configurations a caller may hand to updateConfiguration, and rows the
\* external store may hold.
Configs ==
  {DefaultConfig,
   AlertConfiguration(TRUE, "daily", "monday", "09:00"),
   AlertConfiguration(TRUE, "monthly", "28", "00:00")}

\* Outcomes of the getAlertConfiguration query: the row, or an error, which
\* getAlertConfiguration turns into null.
LoadOutcomes == {"row", "error"}

\* Outcomes of the POST to scheduled-reports.
PostOutcomes == {"ok", "http", "exception"}

\* What loadConfiguration stores in this.currentConfig: the row the store
\* holds when it answers, null when the query failed.
loadConfiguration(o) == IF o = "row" THEN storeConfig ELSE NoConfig

\* The handlers without the k-th.
Without(k) == SubSeq(handlers, 1, k - 1) \o SubSeq(handlers, k + 1, Len(handlers))

\* initialize(), up to the await of loadConfiguration.
Initialize ==
  /\ boot.pc = "idle"
  /\ boot' = Loading
  /\ stopped' = FALSE
  /\ disabled' = FALSE
  /\ last' = Step("initialize", "none", "none", NoRet)
  /\ UNCHANGED <<timeoutId, isActive, currentConfig, timers, storeConfig, handlers>>
  /\ UNCHANGED <<online, now, storageFull, queueVars, cacheVars>>
  /\ UNCHANGED pageVars

\* initialize() resumes: loadConfiguration stores the answer, the timer is
\* armed if the configuration is enabled, and the service is marked active.
InitializeLoaded(o) ==
  /\ boot.pc = "load"
  /\ boot' = CallIdle
  /\ currentConfig' = loadConfiguration(o)
  /\ LET a == IF activado(loadConfiguration(o))
              THEN scheduleNextReport(loadConfiguration(o), timeoutId, timers)
              ELSE Armed(timeoutId, timers)
     IN  timeoutId' = a.timeoutId /\ timers' = a.timers
  /\ isActive' = TRUE
  /\ stopped' = FALSE
  /\ disabled' = FALSE
  /\ last' = Step("initializeLoaded", "none", o, NoRet)
  /\ UNCHANGED <<storeConfig, handlers>>
  /\ UNCHANGED <<online, now, storageFull, queueVars, cacheVars>>
  /\ UNCHANGED pageVars

\* Report handlers suspended at one time.
MaxHandlers == 1

\* Days of the calendar a behaviour runs through.
MaxDay == 4

\* An armed timeout comes due and its callback runs up to its first await:
\* the bridge callback is scheduleNextReport alone; the report callback
\* enters executeScheduledReport, which awaits loadConfiguration.
TimerFires(x) ==
  /\ x \in timers
  /\ x.due <= now
  /\ IF x.bridge
     THEN LET a == scheduleNextReport(currentConfig, timeoutId, timers \ {x})
          IN  /\ timeoutId' = a.timeoutId
              /\ timers' = a.timers
              /\ UNCHANGED handlers
     ELSE /\ Len(handlers) < MaxHandlers
          /\ timers' = timers \ {x}
          /\ handlers' = Append(handlers, Loading)
          /\ UNCHANGED timeoutId
  /\ last' = Step("timerFires", "none", "none", NoRet)
  /\ UNCHANGED <<isActive, currentConfig, storeConfig, boot, stopped, disabled>>
  /\ UNCHANGED <<online, now, storageFull, queueVars, cacheVars>>
  /\ UNCHANGED pageVars

\* The k-th handler resumes from loadConfiguration: with the configuration
\* disabled or missing executeScheduledReport returns and the callback goes
\* on to scheduleNextReport; otherwise the POST is issued and awaited.
HandlerLoaded(k, o) ==
  /\ k \in DOMAIN handlers
  /\ handlers[k].pc = "load"
  /\ currentConfig' = loadConfiguration(o)
  /\ IF activado(loadConfiguration(o))
     THEN /\ handlers' = [handlers EXCEPT ![k].pc = "post"]
          /\ last' = Step("handlerLoaded", "none", "post", NoRet)
          /\ UNCHANGED <<timeoutId, timers>>
     ELSE LET a == scheduleNextReport(loadConfiguration(o), timeoutId, timers)
          IN  /\ handlers' = Without(k)
              /\ timeoutId' = a.timeoutId
              /\ timers' = a.timers
              /\ last' = Step("handlerLoaded", "none", "skip", NoRet)
  /\ UNCHANGED <<isActive, storeConfig, boot, stopped, disabled>>
  /\ UNCHANGED <<online, now, storageFull, queueVars, cacheVars>>
  /\ UNCHANGED pageVars

\* The POST of the k-th handler settles, whatever the outcome: it is logged,
\* executeScheduledReport returns and the callback calls scheduleNextReport.
PostResponse(k, o) ==
  /\ k \in DOMAIN handlers
  /\ handlers[k].pc = "post"
  /\ handlers' = Without(k)
  /\ LET a == scheduleNextReport(currentConfig, timeoutId, timers)
     IN  timeoutId' = a.timeoutId /\ timers' = a.timers
  /\ last' = Step("postResponse", "none", "none", NoRet)
  /\ UNCHANGED <<isActive, currentConfig, storeConfig, boot, stopped, disabled>>
  /\ UNCHANGED <<online, now, storageFull, queueVars, cacheVars>>
  /\ UNCHANGED pageVars

\* forceExecuteReport(), up to the await of loadConfiguration in
\* executeScheduledReport.
ForceExecuteReport ==
  /\ Len(handlers) < MaxHandlers
  /\ handlers' = Append(handlers, [pc |-> "forcedLoad"])
  /\ last' = Step("forceExecuteReport", "none", "none", NoRet)
  /\ UNCHANGED <<timeoutId, isActive, currentConfig, timers, storeConfig, boot,
                 stopped, disabled>>
  /\ UNCHANGED <<online, now, storageFull, queueVars, cacheVars>>
  /\ UNCHANGED pageVars

\* The k-th call, a forced one, resumes from loadConfiguration: with the
\* configuration disabled or missing executeScheduledReport returns, and
\* so does forceExecuteReport; otherwise the POST is issued and awaited.
ForcedLoaded(k, o) ==
  /\ k \in DOMAIN handlers
  /\ handlers[k].pc = "forcedLoad"
  /\ currentConfig' = loadConfiguration(o)
  /\ IF activado(loadConfiguration(o))
     THEN /\ handlers' = [handlers EXCEPT ![k].pc = "forcedPost"]
          /\ last' = Step("forcedLoaded", "none", "post", NoRet)
     ELSE /\ handlers' = Without(k)
          /\ last' = Step("forcedLoaded", "none", "skip", NoRet)
  /\ UNCHANGED <<timeoutId, isActive, timers, storeConfig, boot, stopped, disabled>>
  /\ UNCHANGED <<online, now, storageFull, queueVars, cacheVars>>
  /\ UNCHANGED pageVars

\* The POST of the k-th call, a forced one, settles: the outcome is logged
\* and forceExecuteReport returns; nothing is armed.
ForcedPostResponse(k, o) ==
  /\ k \in DOMAIN handlers
  /\ handlers[k].pc = "forcedPost"
  /\ handlers' = Without(k)
  /\ last' = Step("forcedPostResponse", "none", "none", NoRet)
  /\ UNCHANGED <<timeoutId, isActive, currentConfig, timers, storeConfig, boot,
                 stopped, disabled>>
  /\ UNCHANGED <<online, now, storageFull, queueVars, cacheVars>>
  /\ UNCHANGED pageVars

\* updateConfiguration(newConfig)
UpdateConfiguration(newConfig) ==
  /\ currentConfig' = newConfig
  /\ LET cleared == clearHeld(timers, timeoutId)
         a == IF newConfig.reporte_reposicion_activado
              THEN scheduleNextReport(newConfig, 0, cleared)
              ELSE Armed(0, cleared)
     IN  timeoutId' = a.timeoutId /\ timers' = a.timers
  /\ stopped' = FALSE
  /\ disabled' = ~newConfig.reporte_reposicion_activado
  /\ last' = Step("updateConfiguration", "none", "none", NoRet)
  /\ UNCHANGED <<isActive, storeConfig, boot, handlers>>
  /\ UNCHANGED <<online, now, storageFull, queueVars, cacheVars>>
  /\ UNCHANGED pageVars

\* stop()
Stop ==
  /\ timers' = clearHeld(timers, timeoutId)
  /\ timeoutId' = 0
  /\ isActive' = FALSE
  /\ stopped' = TRUE
  /\ last' = Step("stop", "none", "none", NoRet)
  /\ UNCHANGED <<currentConfig, storeConfig, boot, handlers, disabled>>
  /\ UNCHANGED <<online, now, storageFull, queueVars, cacheVars>>
  /\ UNCHANGED pageVars

\* getSchedulerStatus()
GetSchedulerStatus ==
  /\ last' = Step("getSchedulerStatus", now, "none",
                  [at |-> "return",
                   isActive |-> isActive /\ timeoutId # 0,
                   nextReportTime |-> calculateNextReportTime(currentConfig, now),
                   currentConfig |-> currentConfig])
  /\ UNCHANGED schedVars
  /\ UNCHANGED <<online, now, storageFull, queueVars, cacheVars>>
  /\ UNCHANGED pageVars

\* The row of the external store is rewritten (the settings form of this or
\* another session saved it).
StoreWrite(config) ==
  /\ config # storeConfig
  /\ storeConfig' = config
  /\ last' = Step("storeWrite", "none", "none", NoRet)
  /\ UNCHANGED <<timeoutId, isActive, currentConfig, timers, boot, handlers,
                 stopped, disabled>>
  /\ UNCHANGED <<online, now, storageFull, queueVars, cacheVars>>
  /\ UNCHANGED pageVars

\* The instants the clock may move to next: the moment the earliest armed
\* timeout comes due; ten minutes on, from a full hour, while a call is
\* awaiting the network; a day on while nothing is armed.  Never past a
\* timeout that is due.
NextInstants ==
  {t \in {x.due : x \in timers}
       \cup (IF (boot.pc # "idle" \/ handlers # <<>>) /\ now % TicksPerHour = 0
             THEN {now + 1} ELSE {})
       \cup (IF timers = {} THEN {now + TicksPerDay} ELSE {}) :
     /\ t > now
     /\ t <= MaxDay * TicksPerDay
     /\ \A x \in timers : t <= x.due}

\* Time passes.
Elapse(t) ==
  /\ t \in NextInstants
  /\ now' = t
  /\ last' = Step("elapse", "none", "none", NoRet)
  /\ UNCHANGED schedVars
  /\ UNCHANGED <<online, storageFull, queueVars, cacheVars>>
  /\ UNCHANGED pageVars

\* ------------------------------------------------- two tabs, one store

\* No addPendingTransaction call is between its read and its write.
EnqIdle == [pc |-> "idle"]

\* The browser tabs that share the store.
Writers == {"tab1", "tab2"}

\* addPendingTransaction calls that have read the list and not yet written.
Enqueuing == Cardinality({w \in Writers : enq[w].pc = "write"})

\* addPendingTransaction(transaction) in tab w, up to its read: const
\* pending = this.getPendingTransactions(). Tabs run in parallel, so
\* another tab's getItem and setItem can fall between this read and the
\* setItem of the same call.
EnqueueRead(w, transaction) ==
  /\ enq[w].pc = "idle"
  /\ nextId + Enqueuing <= MaxTx
  /\ enq' = [enq EXCEPT ![w] = [pc |-> "write", transaction |-> transaction,
                                pending |-> getPendingTransactions]]
  /\ last' = Step("enqueueRead", w, "none", NoRet)
  /\ UNCHANGED <<online, now, storageFull, queueVars, cacheVars>>
  /\ UNCHANGED schedVars
  /\ UNCHANGED <<listening, autoTimers, activeTab, alertConfig, reportConfig,
                 savingConfig, autoSyncEnabled>>

StoredPending(read, stored) == stored

\* The list the call pushes to and serialises: its local `pending`, read
\* once at the start of the call.
LocalPending(read, stored) == read

\* The rest of the call in tab w: the entry is built and pushed to the
\* list read, and the whole list is written over whatever the store holds;
\* what setItem throws is rethrown.
EnqueueWrite(w) ==
  /\ enq[w].pc = "write"
  /\ enq' = [enq EXCEPT ![w] = EnqIdle]
  /\ IF storageFull
     THEN /\ last' = Step("enqueueWrite", w, "none", [at |-> "throw"])
          /\ UNCHANGED <<lsPending, nextId>>
     ELSE /\ lsPending' = addPendingTransaction(
                             LocalPending(enq[w].pending, getPendingTransactions),
                             enq[w].transaction)
          /\ nextId' = nextId + 1
          /\ last' = Step("enqueueWrite", w, "none",
                          [at |-> "return", transactionId |-> generateTransactionId])
  /\ UNCHANGED <<online, now, storageFull, syncInProgress, sync, pt, committed,
                 cacheVars>>
  /\ UNCHANGED schedVars
  /\ UNCHANGED <<listening, autoTimers, activeTab, alertConfig, reportConfig,
                 savingConfig, autoSyncEnabled>>

\* ------------------------------------------------------ the settings form

\* The frequencies of the form's radio buttons.
Frequencies == {"daily", "weekly", "biweekly", "monthly"}

\* getDayOptions(): the values the day select offers for a frequency.
getDayOptions(frequency) ==
  CASE frequency = "weekly" -> DOMAIN dayMap
    [] frequency \in {"biweekly", "monthly"} -> {MonthDays[k] : k \in DOMAIN MonthDays}
    [] OTHER -> {}

\* The options a user picks in the day select.
DayPicks == {"monday", "sunday", "1", "31"}

KeepsDay(frequency, day) == day

\* day: e.target.value === 'weekly' ? 'monday' : '1'
resetDay(frequency, day) == IF frequency = "weekly" THEN "monday" ELSE "1"

\* The effect on [alertConfig]: the form shows the row the page holds.
FormOf(config) ==
  [enabled |-> config.reporte_reposicion_activado,
   frequency |-> config.reporte_frecuencia,
   day |-> config.reporte_dia,
   hour |-> config.reporte_hora]

\* updateConfiguration(newConfig) with this.timeoutId = id and the timeouts
\* `armed`: what it leaves armed.
updateConfiguration(newConfig, id, armed) ==
  LET cleared == clearHeld(armed, id)
  IN  IF newConfig.reporte_reposicion_activado
      THEN scheduleNextReport(newConfig, 0, cleared)
      ELSE Armed(0, cleared)

\* loadAlertConfiguration of the mount effect resumes with the answer of
\* getAlertConfiguration: a row is kept and shown in the form, null is
\* ignored.
LoadAlertConfiguration(o) ==
  /\ savingConfig = CallIdle
  /\ IF loadConfiguration(o) # NoConfig
     THEN /\ alertConfig' = loadConfiguration(o)
          /\ reportConfig' = FormOf(loadConfiguration(o))
     ELSE UNCHANGED <<alertConfig, reportConfig>>
  /\ last' = Step("loadAlertConfiguration", "none", o, NoRet)
  /\ UNCHANGED <<online, now, storageFull, queueVars, cacheVars>>
  /\ UNCHANGED schedVars
  /\ UNCHANGED <<listening, autoTimers, activeTab, savingConfig, enq, autoSyncEnabled>>

\* onChange of a frequency radio button: the day is reset with it.
FrequencyChange(frequency) ==
  /\ reportConfig.enabled
  /\ frequency \in Frequencies \ {reportConfig.frequency}
  /\ reportConfig' = [reportConfig EXCEPT !.frequency = frequency,
                                          !.day = resetDay(frequency, @)]
  /\ last' = Step("frequencyChange", frequency, "none", NoRet)
  /\ UNCHANGED <<online, now, storageFull, queueVars, cacheVars>>
  /\ UNCHANGED schedVars
  /\ UNCHANGED <<listening, autoTimers, activeTab, alertConfig, savingConfig, enq, autoSyncEnabled>>

\* onChange of the day select, which is rendered for every frequency but
\* daily with the options of getDayOptions().
DayChange(day) ==
  /\ reportConfig.enabled
  /\ reportConfig.frequency # "daily"
  /\ day \in getDayOptions(reportConfig.frequency) \ {reportConfig.day}
  /\ reportConfig' = [reportConfig EXCEPT !.day = day]
  /\ last' = Step("dayChange", day, "none", NoRet)
  /\ UNCHANGED <<online, now, storageFull, queueVars, cacheVars>>
  /\ UNCHANGED schedVars
  /\ UNCHANGED <<listening, autoTimers, activeTab, alertConfig, savingConfig, enq, autoSyncEnabled>>

\* handleScheduledReportToggle(enabled), up to the await of
\* updateScheduledReportEnabled; the handler keeps the alertConfig of the
\* render it was created in.
ToggleClick ==
  /\ savingConfig = CallIdle
  /\ savingConfig' = [pc |-> "toggle", alertConfig |-> alertConfig,
                      reportConfig |-> [reportConfig EXCEPT !.enabled = ~@]]
  /\ last' = Step("handleScheduledReportToggle", ~reportConfig.enabled, "none", NoRet)
  /\ UNCHANGED <<online, now, storageFull, queueVars, cacheVars>>
  /\ UNCHANGED schedVars
  /\ UNCHANGED <<listening, autoTimers, activeTab, alertConfig, reportConfig, enq, autoSyncEnabled>>

\* handleScheduledReportConfigUpdate(), up to the await of
\* updateScheduledReportConfig; the handler keeps the reportConfig and the
\* alertConfig of the render it was created in.
SaveClick ==
  /\ savingConfig = CallIdle
  /\ reportConfig.enabled
  /\ savingConfig' = [pc |-> "save", alertConfig |-> alertConfig,
                      reportConfig |-> reportConfig]
  /\ last' = Step("handleScheduledReportConfigUpdate", "none", "none", NoRet)
  /\ UNCHANGED <<online, now, storageFull, queueVars, cacheVars>>
  /\ UNCHANGED schedVars
  /\ UNCHANGED <<listening, autoTimers, activeTab, alertConfig, reportConfig, enq, autoSyncEnabled>>

\* The configuration the handler in flight builds: the alertConfig it
\* keeps, with the enabled flag (toggle) or the four fields (save) of the
\* form.
updatedConfig ==
  IF savingConfig.pc = "toggle"
  THEN [savingConfig.alertConfig EXCEPT
          !.reporte_reposicion_activado = savingConfig.reportConfig.enabled]
  ELSE AlertConfiguration(savingConfig.reportConfig.enabled,
                          savingConfig.reportConfig.frequency,
                          savingConfig.reportConfig.day,
                          savingConfig.reportConfig.hour)

\* The row of the store after the handler's update: the enabled flag
\* alone (updateScheduledReportEnabled) or the four fields
\* (updateScheduledReportConfig).
updatedRow ==
  IF savingConfig.pc = "toggle"
  THEN [storeConfig EXCEPT
          !.reporte_reposicion_activado = savingConfig.reportConfig.enabled]
  ELSE updatedConfig

\* The handler in flight resumes from the store's answer: on success, and
\* if the page holds a row, the page and the form take the configuration
\* built and the scheduler is given it by updateConfiguration; otherwise
\* nothing changes.
SettingsDone(success) ==
  /\ savingConfig # CallIdle
  /\ savingConfig' = CallIdle
  /\ storeConfig' = IF success THEN updatedRow ELSE storeConfig
  /\ IF success /\ savingConfig.alertConfig # NoConfig
     THEN /\ alertConfig' = updatedConfig
          /\ reportConfig' = FormOf(updatedConfig)
          /\ currentConfig' = updatedConfig
          /\ LET a == updateConfiguration(updatedConfig, timeoutId, timers)
             IN  timeoutId' = a.timeoutId /\ timers' = a.timers
          /\ stopped' = FALSE
          /\ disabled' = ~updatedConfig.reporte_reposicion_activado
     ELSE UNCHANGED <<alertConfig, reportConfig, currentConfig, timeoutId, timers,
                      stopped, disabled>>
  /\ last' = Step("settingsDone", "none", success, NoRet)
  /\ UNCHANGED <<isActive, boot, handlers>>
  /\ UNCHANGED <<online, now, storageFull, queueVars, cacheVars>>
  /\ UNCHANGED <<listening, autoTimers, activeTab, enq, autoSyncEnabled>>

\* ---------------------------------------------------------- the auto-sync

\* Timeouts armed for autoSyncPendingTransactions at one time.
MaxAutoTimers == 2

\* setTimeout(..., 1000) of the online handler, milliseconds.
SettleDelay == 1000

\* setTimeout(..., 2000) of initializeAutoSync, milliseconds.
InitialDelay == 2000

\* The values of App's activeTab that matter here: the two modules that
\* use the offline service, and HOME for every other tab.
AppTabs == {"HOME", "UPDATE_UNIDADES", "CONTROL_TRANSACCIONES"}

\* initializeAutoSync(), called once by the getInstance() that creates the
\* singleton: the timeouts it leaves armed when it finds `pending` stored.
initializeAutoSync(pending) ==
  IF navigatorOnLine /\ Len(pending) > 0 THEN <<InitialDelay>> ELSE <<>>

\* syncPendingTransactions() called from call site c, up to its first await
\* or its early return.
StartPass(c) ==
  IF syncAlreadyRunning THEN UNCHANGED <<sync, syncInProgress>>
  ELSE IF Len(getPendingTransactions) = 0
  THEN syncInProgress' = FALSE /\ UNCHANGED sync
  ELSE /\ syncInProgress' = TRUE
       /\ sync' = [sync EXCEPT ![c] =
                     [pc |-> "fetch", pending |-> getPendingTransactions, i |-> 1,
                      synced |-> 0, failed |-> 0]]

BlockedWithoutSwitch == syncInProgress \/ ~navigatorOnLine

\* if (!this.autoSyncEnabled || this.syncInProgress || !navigator.onLine)
autoSyncBlocked == ~autoSyncEnabled \/ syncInProgress \/ ~navigatorOnLine

\* setAutoSyncEnabled(enabled)
SetAutoSyncEnabled(enabled) ==
  /\ autoSyncEnabled' = enabled
  /\ last' = Step("setAutoSyncEnabled", enabled, "none", NoRet)
  /\ UNCHANGED <<online, now, storageFull, queueVars, cacheVars>>
  /\ UNCHANGED schedVars
  /\ UNCHANGED <<listening, autoTimers, activeTab, alertConfig, reportConfig,
                 savingConfig, enq>>

\* A timeout of the auto-sync fires and autoSyncPendingTransactions runs up
\* to the await of syncPendingTransactions.  Nothing follows that await:
\* syncPendingTransactions catches every error of a commit and never
\* throws, so the catch that would arm a retry in 30 seconds is never
\* entered.  Timeouts of equal delay fire in arming order.
AutoTimerFires(k) ==
  /\ k \in DOMAIN autoTimers
  /\ \A j \in 1..(k - 1) : autoTimers[j] > autoTimers[k]
  /\ autoTimers' = SubSeq(autoTimers, 1, k - 1)
                     \o SubSeq(autoTimers, k + 1, Len(autoTimers))
  /\ IF autoSyncBlocked
     THEN UNCHANGED <<sync, syncInProgress>>
     ELSE IF getPendingTransactionCount = 0
     THEN UNCHANGED <<sync, syncInProgress>>
     ELSE StartPass("auto")
  /\ last' = Step("autoSyncPendingTransactions", autoTimers[k], "none", NoRet)
  /\ UNCHANGED <<online, now, storageFull, lsPending, nextId, pt, committed,
                 cacheVars>>
  /\ UNCHANGED schedVars
  /\ UNCHANGED <<listening, activeTab, alertConfig, reportConfig, savingConfig,
                 enq, autoSyncEnabled>>

\* The window's 'online' event: onlineStatusHandler, if still registered,
\* arms the settle timeout; the handleOnline of the mounted module runs up
\* to its first await (UpdateUnidadesModule calls syncPendingTransactions
\* when the queue is not empty, ControlTransaccionesModule always).
OnlineEvent ==
  /\ ~online
  /\ Len(autoTimers) < MaxAutoTimers
  /\ online' = TRUE
  /\ autoTimers' = IF listening /\ autoSyncEnabled
                   THEN Append(autoTimers, SettleDelay) ELSE autoTimers
  /\ CASE activeTab = "UPDATE_UNIDADES" ->
            IF getPendingTransactionCount > 0 THEN StartPass("host")
            ELSE UNCHANGED <<sync, syncInProgress>>
       [] activeTab = "CONTROL_TRANSACCIONES" -> StartPass("host")
       [] OTHER -> UNCHANGED <<sync, syncInProgress>>
  /\ last' = Step("online", "none", "none", NoRet)
  /\ UNCHANGED <<now, storageFull, lsPending, nextId, pt, committed, cacheVars>>
  /\ UNCHANGED schedVars
  /\ UNCHANGED <<listening, activeTab, alertConfig, reportConfig, savingConfig,
                 enq, autoSyncEnabled>>

\* The window's 'offline' event.
OfflineEvent ==
  /\ online
  /\ online' = FALSE
  /\ last' = Step("offline", "none", "none", NoRet)
  /\ UNCHANGED <<now, storageFull, queueVars, cacheVars>>
  /\ UNCHANGED schedVars
  /\ UNCHANGED pageVars

\* cleanup(): window.removeEventListener('online', onlineStatusHandler);
\* what is left of the registration.
cleanup == FALSE

\* The user switches to another tab: the mounted module unmounts, and the
\* unmount effect of UpdateUnidadesModule calls offlineService.cleanup().
\* getInstance() in the module that mounts finds the singleton and does
\* not run initializeAutoSync again.
SwitchTab(t) ==
  /\ t \in AppTabs \ {activeTab}
  /\ activeTab' = t
  /\ listening' = IF activeTab = "UPDATE_UNIDADES" THEN cleanup ELSE listening
  /\ last' = Step("switchTab", t, "none", NoRet)
  /\ UNCHANGED <<online, now, storageFull, queueVars, cacheVars>>
  /\ UNCHANGED schedVars
  /\ UNCHANGED <<autoTimers, alertConfig, reportConfig, savingConfig, enq, autoSyncEnabled>>

\* ------------------------------------------------------------ environment

\* The rows held by the remote reference-data endpoint change.
RemoteChange ==
  /\ remoteData' = CHOOSE v \in DataVersions : v # remoteData
  /\ last' = Step("remoteChange", "none", "none", NoRet)
  /\ UNCHANGED <<online, now, storageFull, lsCache, gd, queueVars>>
  /\ UNCHANGED schedVars
  /\ UNCHANGED pageVars

\* The platform's online / offline transition.
Connectivity ==
  /\ online' = ~online
  /\ last' = Step("connectivity", ~online, "none", NoRet)
  /\ UNCHANGED <<now, storageFull, queueVars, cacheVars>>
  /\ UNCHANGED schedVars
  /\ UNCHANGED pageVars

\* Time passes.
Tick ==
  /\ now < MaxNow
  /\ now' = now + 1
  /\ last' = Step("tick", now + 1, "none", NoRet)
  /\ UNCHANGED <<online, storageFull, queueVars, cacheVars>>
  /\ UNCHANGED schedVars
  /\ UNCHANGED pageVars

\* The store's quota is exhausted, or space is freed again.
StorageQuota ==
  /\ storageFull' = ~storageFull
  /\ last' = Step("storageQuota", ~storageFull, "none", NoRet)
  /\ UNCHANGED <<online, now, queueVars, cacheVars>>
  /\ UNCHANGED schedVars
  /\ UNCHANGED pageVars

\* ------------------------------------------------------- specifications

\* The form of the settings page before the row is loaded.
InitialReportConfig ==
  [enabled |-> FALSE, frequency |-> "weekly", day |-> "monday", hour |-> "09:00"]

\* The page once UpdateUnidadesModule has rendered for the first time:
\* getInstance() has created the singleton and run initializeAutoSync.
Mounted(pending) ==
  /\ listening = TRUE
  /\ autoTimers = initializeAutoSync(pending)
  /\ activeTab = "UPDATE_UNIDADES"
  /\ alertConfig = NoConfig
  /\ reportConfig = InitialReportConfig
  /\ savingConfig = CallIdle
  /\ enq = [w \in Writers |-> EnqIdle]
  /\ autoSyncEnabled = TRUE

\* The offline service at instant t of a page load that finds `pending`
\* stored by an earlier session.
Loaded(pending, t) ==
  /\ online = TRUE
  /\ now = t
  /\ storageFull = FALSE
  /\ lsCache = NoItem
  /\ lsPending = pending
  /\ nextId = Len(pending) + 1
  /\ syncInProgress = FALSE
  /\ sync = [c \in SyncCallers |-> SyncIdle]
  /\ pt = PtIdle
  /\ committed = <<>>
  /\ remoteData = "v1"
  /\ gd = GdIdle
  /\ last = Step("init", "none", "none", NoRet)
  /\ Mounted(pending)

\* The scheduler as its constructor leaves it, holding `config`, with what
\* `armed` says armed; the store holds the row of the migration.
Constructed(config, armed) ==
  /\ timeoutId = armed.timeoutId
  /\ isActive = FALSE
  /\ currentConfig = config
  /\ timers = armed.timers
  /\ storeConfig = DefaultConfig
  /\ boot = CallIdle
  /\ handlers = <<>>
  /\ stopped = FALSE
  /\ disabled = FALSE

\* A page load that finds `pending` stored by an earlier session.
Start(pending) ==
  /\ Loaded(pending, 0)
  /\ Constructed(NoConfig, Armed(0, {}))

\* The first page load: nothing stored.
Init == Start(<<>>)

\* Queues an earlier session may have left in the store.
StoredQueues ==
  {<<>>, <<[tx |-> "salida", id |-> 1, createdAt |-> 0, attempts |-> 0]>>}

InitCache == \E pending \in StoredQueues : Start(pending)

\* The queue and its synchronizer, with a store that accepts every write.
Next ==
  \/ \E c \in SyncCallers : SyncCall(c)
  \/ \E c \in SyncCallers, o \in Outcomes : SyncResponse(c, o)
  \/ \E transaction \in Payloads : ProcessTransactionCall(transaction)
  \/ \E o \in Outcomes : ProcessTransactionResponse(o)
  \/ Connectivity

Spec == Init /\ [][Next]_vars

\* The same, against an endpoint that answers every request (2xx or not).
NextHttp ==
  \/ \E c \in SyncCallers : SyncCall(c)
  \/ \E c \in SyncCallers, o \in HttpOutcomes : SyncResponse(c, o)
  \/ \E transaction \in Payloads : ProcessTransactionCall(transaction)
  \/ \E o \in HttpOutcomes : ProcessTransactionResponse(o)
  \/ Connectivity

SpecHttp == Init /\ [][NextHttp]_vars

\* The call sites of the passes below: the button and the auto-sync.
ReleaseCallers == {"manual", "auto"}

\* Sync passes against a store whose writes and reads may fail.  A pass
\* starts only while the endpoint can still accept every entry of the queue
\* within MaxCommits, so that its fetches can always settle.
NextRelease ==
  \/ \E transaction \in Payloads : AddCall(transaction)
  \/ \E c \in ReleaseCallers :
       /\ Len(committed) + Len(lsPending) <= MaxCommits
       /\ SyncCall(c)
  \/ \E c \in ReleaseCallers : SyncCallUnreadable(c)
  \/ \E c \in ReleaseCallers, o \in Outcomes :
       /\ o # "ok" => TotalAttempts(lsPending) < MaxIncrements
       /\ SyncResponse(c, o)
  \/ \E c \in ReleaseCallers, o \in Outcomes : SyncResponseUnreadable(c, o)
  \/ StorageQuota

SpecRelease == InitCache /\ [][NextRelease]_vars

\* A fetch in flight settles.
Settles ==
  \E c \in ReleaseCallers, o \in Outcomes :
    SyncResponse(c, o) \/ SyncResponseUnreadable(c, o)

\* The same, with the platform's guarantee that every fetch settles, with
\* a response or with a rejection.
SpecReleaseFair == SpecRelease /\ WF_vars(Settles)

\* Enqueues, direct and through processTransaction on both of its paths,
\* against a store whose quota comes and goes.
NextEnqueue ==
  \/ \E transaction \in Payloads : AddCall(transaction)
  \/ \E transaction \in Payloads : ProcessTransactionCall(transaction)
  \/ \E o \in Outcomes : ProcessTransactionResponse(o)
  \/ Connectivity
  \/ StorageQuota

SpecEnqueue == InitCache /\ [][NextEnqueue]_vars

\* One transfer submitted by the form, while connectivity changes and sync
\* passes run; no entry reaches the retry ceiling.
NextTransfer ==
  \/ SubmitSalida
  \/ SubmitEntrada
  \/ \E o \in Outcomes : ProcessTransactionResponse(o)
  \/ \E c \in SyncCallers : SyncCall(c)
  \/ \E c \in SyncCallers, o \in Outcomes :
       /\ o # "ok" => TotalAttempts(lsPending) < MaxIncrements
       /\ SyncResponse(c, o)
  \/ Connectivity

SpecTransfer == Init /\ [][NextTransfer]_vars

\* The queue under every one of its operations, called directly: enqueues,
\* dequeues and increments, around sync passes of the "sync now" button.
NextOps ==
  \/ SyncCall("manual")
  \/ \E o \in Outcomes :
       /\ o # "ok" => TotalAttempts(lsPending) < MaxIncrements
       /\ SyncResponse("manual", o)
  \/ \E transaction \in Payloads : AddCall(transaction)
  \/ \E transactionId \in 1..MaxTx : RemoveCall(transactionId)
  \/ \E transactionId \in 1..MaxTx : IncrementCall(transactionId)

SpecOps == Init /\ [][NextOps]_vars

\* The cache and getData, with the clock running, a queue left by an
\* earlier session, and a store that accepts every write.
NextCache ==
  \/ \E forceRefresh \in BOOLEAN : GetDataCall(forceRefresh)
  \/ \E o \in FetchOutcomes : GetDataResponse(o, TRUE)
  \/ RemoteChange
  \/ Connectivity
  \/ Tick

SpecCache == InitCache /\ [][NextCache]_vars

\* The cache and getData against a store whose quota comes and goes: the
\* first write of setCachedData fails while the quota is exhausted, and the
\* retry after clearCache may fail too.
NextQuota ==
  \/ \E forceRefresh \in BOOLEAN : GetDataCall(forceRefresh)
  \/ \E o \in FetchOutcomes, retryWrites \in BOOLEAN : GetDataResponse(o, retryWrites)
  \/ RemoteChange
  \/ StorageQuota
  \/ Tick

SpecQuota == InitCache /\ [][NextQuota]_vars

\* The auto-sync: connectivity events, the timeouts of the service, the
\* online handlers of the mounted module, tab switches, and transactions
\* submitted offline from UpdateUnidadesModule.
NextAuto ==
  \/ OnlineEvent
  \/ OfflineEvent
  \/ \E k \in DOMAIN autoTimers : AutoTimerFires(k)
  \/ \E c \in {"host", "auto"}, o \in Outcomes :
       /\ o # "ok" => TotalAttempts(lsPending) < MaxIncrements
       /\ SyncResponse(c, o)
  \/ \E t \in AppTabs : SwitchTab(t)
  \/ \E transaction \in Payloads :
       /\ ~online
       /\ activeTab = "UPDATE_UNIDADES"
       /\ ProcessTransactionCall(transaction)

SpecAuto == InitCache /\ [][NextAuto]_vars

\* The auto-sync with its switch, next to explicit calls from the "sync
\* now" button.
NextSwitch ==
  \/ NextAuto
  \/ \E enabled \in BOOLEAN : SetAutoSyncEnabled(enabled)
  \/ SyncCall("manual")
  \/ \E o \in Outcomes :
       /\ o # "ok" => TotalAttempts(lsPending) < MaxIncrements
       /\ SyncResponse("manual", o)

SpecSwitch == InitCache /\ [][NextSwitch]_vars

\* The report scheduler: its calls, its timeouts, the configuration store
\* and the clock.
NextSched ==
  \/ Initialize
  \/ \E o \in LoadOutcomes : InitializeLoaded(o)
  \/ \E x \in timers : TimerFires(x)
  \/ \E k \in DOMAIN handlers, o \in LoadOutcomes : HandlerLoaded(k, o)
  \/ \E k \in DOMAIN handlers, o \in PostOutcomes : PostResponse(k, o)
  \/ \E newConfig \in Configs : UpdateConfiguration(newConfig)
  \/ Stop
  \/ \E config \in Configs : StoreWrite(config)
  \/ \E t \in NextInstants : Elapse(t)

SpecSched == Init /\ [][NextSched]_vars

\* The report scheduler with forced executions next to the genuine fires.
NextForce ==
  \/ NextSched
  \/ ForceExecuteReport
  \/ \E k \in DOMAIN handlers, o \in LoadOutcomes : ForcedLoaded(k, o)
  \/ \E k \in DOMAIN handlers, o \in PostOutcomes : ForcedPostResponse(k, o)

SpecForce == Init /\ [][NextForce]_vars

\* The same, with the platform's guarantees: a timeout that is due fires,
\* and time does not stand still.
SpecSchedFair ==
  /\ SpecSched
  /\ WF_vars(\E x \in timers : TimerFires(x))
  /\ WF_vars(\E t \in NextInstants : Elapse(t))

\* Two tabs that enqueue into the same store, while the clock advances and
\* the store's quota comes and goes.
NextTabs ==
  \/ \E w \in Writers, transaction \in Payloads : EnqueueRead(w, transaction)
  \/ \E w \in Writers : EnqueueWrite(w)
  \/ Tick
  \/ StorageQuota

SpecTabs == Init /\ [][NextTabs]_vars

\* The settings form and the scheduler it configures: the store is written
\* by the form alone.
NextForm ==
  \/ \E o \in LoadOutcomes : LoadAlertConfiguration(o)
  \/ \E frequency \in Frequencies : FrequencyChange(frequency)
  \/ \E day \in DayPicks : DayChange(day)
  \/ ToggleClick
  \/ SaveClick
  \/ \E success \in BOOLEAN : SettingsDone(success)
  \/ \E x \in timers : TimerFires(x)
  \/ \E k \in DOMAIN handlers, o \in LoadOutcomes : HandlerLoaded(k, o)
  \/ \E k \in DOMAIN handlers, o \in PostOutcomes : PostResponse(k, o)
  \/ \E t \in NextInstants : Elapse(t)

SpecForm == Init /\ [][NextForm]_vars

\* The report scheduler with its introspection call.
NextStatus ==
  \/ NextSched
  \/ GetSchedulerStatus

SpecStatus == Init /\ [][NextStatus]_vars

\* Days of the calendar from which the instants of a fire-time computation
\* are drawn.
MaxCalcDay == 8

CalcInstants == 0..(MaxCalcDay * TicksPerDay)

\* Enabled daily and weekly configurations: every weekday name of the
\* settings form, every hour of Horas.
CalcConfigs ==
  {AlertConfiguration(TRUE, "daily", dia, hora) :
     dia \in {"monday"}, hora \in Horas}
  \cup {AlertConfiguration(TRUE, "weekly", dia, hora) :
          dia \in DOMAIN dayMap, hora \in Horas}

\* The service at any instant, just after updateConfiguration(config).
InitCalc ==
  \E t \in CalcInstants, config \in CalcConfigs :
    /\ Loaded(<<>>, t)
    /\ Constructed(config, scheduleNextReport(config, 0, {}))

\* The fire-time computation, as getSchedulerStatus reports it.
NextCalc ==
  \/ GetSchedulerStatus

SpecCalc == InitCalc /\ [][NextCalc]_vars

\* Days of the calendar from which the instants of a biweekly or monthly
\* fire-time computation are drawn: January to March.
MaxMonthDay == 90

\* Times of day around midnight and around the hours of Horas, in ticks.
TimesOfDay ==
  {0, 1, 9 * TicksPerHour - 1, 9 * TicksPerHour, 9 * TicksPerHour + 1,
   TicksPerDay - 1}

MonthInstants ==
  {d * TicksPerDay + h : d \in 0..(MaxMonthDay - 1), h \in TimesOfDay}

\* Enabled biweekly and monthly configurations: every day of the month of
\* the settings form, every hour of Horas.
MonthConfigs ==
  {AlertConfiguration(TRUE, frecuencia, MonthDays[k], hora) :
     frecuencia \in {"biweekly", "monthly"}, k \in DOMAIN MonthDays,
     hora \in Horas}

\* The service at any instant, just after updateConfiguration(config).
InitMonth ==
  \E t \in MonthInstants, config \in MonthConfigs :
    /\ Loaded(<<>>, t)
    /\ Constructed(config, scheduleNextReport(config, 0, {}))

SpecMonth == InitMonth /\ [][NextCalc]_vars

\* ------------------------------------------------------------- properties

\* The snapshot entry whose fetch call c is awaiting.
Cur(c) == sync[c].pending[sync[c].i]

InQueue(pending, transactionId) ==
  \E k \in DOMAIN pending : pending[k].id = transactionId

PassInFlight == \E c \in SyncCallers : sync[c].pc = "fetch"

\* The step just taken delivered outcome o to the pass of call site c.
Delivered(c, o) ==
  last'.op = "syncResponse" /\ last'.arg = c /\ last'.outcome = o

\* The counters of call c after a step of its pass: the running locals, or
\* the value returned when the step ended the pass.
CountsAfter(c) ==
  IF last'.ret = NoRet THEN <<sync'[c].synced, sync'[c].failed>>
  ELSE <<last'.ret.synced, last'.ret.failed>>

\* The step just taken ended a processTransaction call.
PtEnded ==
  /\ last'.op \in {"processTransaction", "processTransactionResponse"}
  /\ pt'.pc = "idle"

\* C1 (as claimed): against an endpoint that rejects with a non-2xx status,
\* the n-th failed commit of an entry leaves it queued and counted as failed
\* for n = 1..4, and the 5th removes it and counts it in neither synced nor
\* failed.
C1_RetryCeiling ==
  [][\A c \in SyncCallers :
       (Delivered(c, "http") /\ InQueue(lsPending, Cur(c).id)) =>
         LET id == Cur(c).id
             nth == lsPending[FindIndex(lsPending, id)].attempts + 1
         IN  /\ nth <= 4 =>
                  /\ InQueue(lsPending', id)
                  /\ CountsAfter(c) = <<sync[c].synced, sync[c].failed + 1>>
             /\ nth = 5 =>
                  /\ ~InQueue(lsPending', id)
                  /\ CountsAfter(c) = <<sync[c].synced, sync[c].failed>>]_vars

\* C2 (as claimed): no queued entry ever has attempts greater than 5,
\* whatever kind of commit failure it met.
C2_AttemptsWithinCeiling ==
  \A k \in DOMAIN lsPending : lsPending[k].attempts <= RETRY_CEILING

\* C3: at most one pass is ever suspended in a commit request, and a call of
\* syncPendingTransactions made while a pass is suspended returns
\* {synced: 0, failed: 0}, starts no pass, issues no request and leaves the
\* queue as it was.
C3_SingleInFlightSync ==
  /\ [](Cardinality({c \in SyncCallers : sync[c].pc = "fetch"}) <= 1)
  /\ [][(PassInFlight /\ last'.op = "syncPendingTransactions") =>
          /\ last'.ret # NoRet
          /\ last'.ret.synced = 0 /\ last'.ret.failed = 0
          /\ sync' = sync
          /\ lsPending' = lsPending
          /\ committed' = committed]_vars

C3_Witness ==
  /\ PassInFlight
  /\ last.op = "syncPendingTransactions"
  /\ last.ret = SyncRet("busy", 0, 0)
  /\ Len(lsPending) = 2

\* C4: the stored list is in enqueue order (ids ascend), and in a pass whose
\* commits all succeed each accepted request is for the head of the stored
\* list, which that step dequeues; when the pass ends nothing of its
\* snapshot is left, so the queue is empty unless something was enqueued
\* while the pass ran.
C4_QueueFIFO ==
  /\ [](\A j, k \in DOMAIN lsPending : j < k => lsPending[j].id < lsPending[k].id)
  /\ [][\A c \in SyncCallers :
          (Delivered(c, "ok") /\ sync[c].synced = sync[c].i - 1) =>
            /\ lsPending # <<>>
            /\ Head(lsPending) = Cur(c)
            /\ lsPending' = Tail(lsPending)
            /\ committed' = Append(committed, Head(lsPending).tx)
            /\ last'.ret # NoRet =>
                 /\ last'.ret = SyncRet("end", Len(sync[c].pending), 0)
                 /\ \A k \in DOMAIN lsPending' : lsPending'[k].id > Cur(c).id
                 /\ nextId = Cur(c).id + 1 => lsPending' = <<>>]_vars

C4_Witness ==
  /\ last.op = "syncResponse"
  /\ last.ret = SyncRet("end", 2, 0)
  /\ lsPending = <<>>
  /\ committed = <<"salida", "entrada">>

\* C5: offline and with an empty queue, processTransaction(tx) returns
\* success and offline and leaves exactly one entry, carrying tx with
\* attempts 0; online again, a syncPendingTransactions call with no pass
\* running takes that entry as its snapshot, and when its commit succeeds
\* the call returns {synced: 1, failed: 0} and the queue is empty.
C5_OfflineRoundTrip ==
  /\ [][(last'.op = "processTransaction" /\ ~online /\ lsPending = <<>>) =>
          /\ last'.ret # NoRet
          /\ last'.ret.success /\ last'.ret.offline
          /\ Len(lsPending') = 1
          /\ lsPending'[1].tx = last'.arg
          /\ lsPending'[1].attempts = 0
          /\ lsPending'[1].id = last'.ret.transactionId]_vars
  /\ [][\A c \in SyncCallers :
          (last'.op = "syncPendingTransactions" /\ last'.arg = c
             /\ ~PassInFlight /\ Len(lsPending) = 1) =>
            /\ sync'[c].pc = "fetch"
            /\ sync'[c].pending = lsPending]_vars
  /\ [][\A c \in SyncCallers :
          (Delivered(c, "ok") /\ Len(sync[c].pending) = 1
             /\ lsPending = sync[c].pending) =>
            /\ last'.ret = SyncRet("end", 1, 0)
            /\ lsPending' = <<>>
            /\ committed' = Append(committed, lsPending[1].tx)]_vars

C5_Witness ==
  /\ online
  /\ last.op = "syncResponse"
  /\ last.ret = SyncRet("end", 1, 0)
  /\ lsPending = <<>>
  /\ nextId = 2
  /\ committed = <<"entrada">>

C7_OfflineQueuesOnlineCommits ==
  /\ [][(last'.op = "processTransaction" /\ ~online) =>
          /\ pt'.pc = "idle"
          /\ pt' = pt
          /\ sync' = sync
          /\ committed' = committed
          /\ Len(lsPending') = Len(lsPending) + 1
          /\ SubSeq(lsPending', 1, Len(lsPending)) = lsPending]_vars
  /\ [][(last'.op = "processTransactionResponse" /\ last'.outcome = "ok") =>
          /\ lsPending' = lsPending
          /\ nextId' = nextId]_vars

C7_Witness ==
  /\ ~online
  /\ last.op = "processTransaction"
  /\ last.ret # NoRet
  /\ Len(lsPending) = 2
  /\ pt.pc = "idle"

\* The age, in milliseconds, of the stored cache entry.
CacheAge == Date_now - lsCache.lastUpdated

\* The rows getData hands back are those of the stored entry.
ReturnsStored(r) ==
  /\ r # NoRet
  /\ r.at = "return"
  /\ r.fromCache
  /\ r.productos = lsCache.productos
  /\ r.inventario = lsCache.inventario

\* What getData(false) does when no cache entry is stored: offline it
\* rejects with the no-cached-data error, online it awaits a load.
AsIfNoCache ==
  /\ lsCache' = NoItem
  /\ IF online THEN gd'.pc = "fetch" /\ last'.ret = NoRet
     ELSE gd'.pc = "idle" /\ last'.ret = GdError("offline")

\* The step just taken ended a getData call.
GdEnded ==
  /\ last'.op \in {"getData", "getDataResponse"}
  /\ last'.ret # NoRet

\* C8 (as claimed): getData(false) returns a stored entry of age D with
\* fromCache = true if and only if D < 30 minutes, and at D >= 30 minutes
\* it, hasCachedData and the offline path behave as if nothing were stored;
\* no entry of age 30 minutes or more is returned as cached data.
C8_CacheFreshness ==
  /\ [](lsCache # NoItem => (hasCachedData <=> CacheAge < CACHE_EXPIRY))
  /\ [][(last'.op = "getData" /\ last'.arg = FALSE /\ lsCache # NoItem) =>
          IF CacheAge < CACHE_EXPIRY
          THEN ReturnsStored(last'.ret) /\ lsCache' = lsCache /\ gd' = gd
          ELSE AsIfNoCache]_vars
  /\ [][(GdEnded /\ last'.ret.fromCache) =>
          (lsCache # NoItem /\ CacheAge < CACHE_EXPIRY)]_vars

\* C8 (amended): the same with the window closed at its end: an entry is
\* served from the cache if and only if D <= 30 minutes, and only at
\* D > 30 minutes is it treated as absent (and removed).
C8_CacheFreshnessInclusive ==
  /\ [](lsCache # NoItem => (hasCachedData <=> CacheAge <= CACHE_EXPIRY))
  /\ [][(last'.op = "getData" /\ last'.arg = FALSE /\ lsCache # NoItem) =>
          IF CacheAge <= CACHE_EXPIRY
          THEN ReturnsStored(last'.ret) /\ lsCache' = lsCache /\ gd' = gd
          ELSE AsIfNoCache]_vars
  /\ [][(last'.op = "getData" /\ last'.arg = FALSE /\ lsCache = NoItem) =>
          AsIfNoCache]_vars
  /\ [][(GdEnded /\ last'.ret.fromCache) =>
          (lsCache # NoItem /\ CacheAge <= CACHE_EXPIRY)]_vars

C8_Witness ==
  /\ last.op = "getData"
  /\ last.arg = FALSE
  /\ lsCache # NoItem
  /\ CacheAge = CACHE_EXPIRY
  /\ ReturnsStored(last.ret)

\* C9: a getData call made offline leaves no load in flight; it returns the
\* stored entry with fromCache = true when that entry has not expired, and
\* otherwise rejects with the no-cached-data-offline error; the pending
\* queue and the commit log are as they were.
C9_OfflineGetData ==
  [][(last'.op = "getData" /\ ~online) =>
       /\ gd'.pc = "idle"
       /\ gd' = gd
       /\ IF lsCache # NoItem /\ CacheAge <= CACHE_EXPIRY
          THEN ReturnsStored(last'.ret) /\ lsCache' = lsCache
          ELSE last'.ret = GdError("offline")
       /\ UNCHANGED queueVars]_vars

C9_Witness ==
  /\ ~online
  /\ last.op = "getData"
  /\ last.ret = GdError("offline")
  /\ lsPending # <<>>

\* C10 (as claimed): when the load of an online getData call fails and a
\* cache entry was stored before the call, the call returns that entry's
\* rows with fromCache = true and the entry is still stored afterwards.
C10_FallbackToAnyCache ==
  [][(last'.op = "getDataResponse" /\ last'.outcome = "error"
        /\ gd.before # NoItem) =>
       /\ last'.ret = GdData(gd.before.productos, gd.before.inventario, TRUE)
       /\ lsCache' = gd.before]_vars

\* C10 (amended): when the load fails, the call returns the stored entry's
\* rows with fromCache = true, and leaves the entry stored, exactly when an
\* entry is stored whose age is then at most 30 minutes; with no entry, or
\* an older one (which the read removes), the network error is propagated.
C10_FallbackToFreshCache ==
  [][(last'.op = "getDataResponse" /\ last'.outcome = "error") =>
       IF lsCache # NoItem /\ CacheAge <= CACHE_EXPIRY
       THEN ReturnsStored(last'.ret) /\ lsCache' = lsCache
       ELSE last'.ret = GdError("network") /\ lsCache' = NoItem]_vars

C10_Witness ==
  /\ last.op = "getDataResponse"
  /\ last.outcome = "error"
  /\ lsCache # NoItem
  /\ CacheAge > 0
  /\ ReturnsStored(last.ret)
  /\ remoteData # lsCache.productos

\* The entry a successful load stores: the fetched rows, stamped now.
Fetched == NewCache(remoteData, remoteData)

\* C11: online, getData with forceRefresh or without a valid cache awaits a
\* load; when the load succeeds the stored entry is exactly the fetched rows
\* stamped with the current time, whatever was stored before, and the call
\* returns them with fromCache = false; a getData(false) made while that
\* entry is younger than 30 minutes returns its rows with fromCache = true,
\* starts no load and leaves the entry as it is.
C11_RefreshReplacesCache ==
  /\ [][(last'.op = "getData" /\ online /\ (last'.arg \/ ~hasCachedData)) =>
          /\ gd'.pc = "fetch"
          /\ last'.ret = NoRet]_vars
  /\ [][(last'.op = "getDataResponse" /\ last'.outcome = "ok") =>
          /\ lsCache' = Fetched
          /\ lsCache'.lastUpdated = Date_now
          /\ last'.ret = GdData(remoteData, remoteData, FALSE)]_vars
  /\ [][(last'.op = "getData" /\ last'.arg = FALSE /\ lsCache # NoItem
          /\ CacheAge < CACHE_EXPIRY) =>
          /\ ReturnsStored(last'.ret)
          /\ gd' = gd
          /\ gd'.pc = "idle"
          /\ lsCache' = lsCache]_vars

C11_Witness ==
  /\ online
  /\ last.op = "getData"
  /\ last.arg = FALSE
  /\ ReturnsStored(last.ret)
  /\ lsCache.productos = "v2"
  /\ lsCache.lastUpdated > 0
  /\ CacheAge > 0

\* C12: the setCachedData call of a successful load never makes the load
\* fail: the call returns the fetched rows whatever the store does.  One
\* setItem is made when the store accepts it; when it throws, exactly one
\* more is made after the stored entry was cleared, and if that one throws
\* too nothing is left stored.  The pending queue is as it was.
C12_SetCachedDataNeverRaises ==
  [][(last'.op = "getDataResponse" /\ last'.outcome = "ok") =>
       /\ last'.ret = GdData(remoteData, remoteData, FALSE)
       /\ last'.arg \in {1, 2}
       /\ last'.arg = 2 <=> storageFull
       /\ ~storageFull => lsCache' = Fetched
       /\ storageFull => lsCache' \in {NoItem, Fetched}
       /\ UNCHANGED queueVars]_vars

C12_Witness ==
  /\ storageFull
  /\ last.op = "getDataResponse"
  /\ last.outcome = "ok"
  /\ last.arg = 2
  /\ last.ret # NoRet
  /\ last.ret.at = "return"
  /\ lsCache = NoItem
  /\ lsPending # <<>>

\* The step just taken issued the POST to scheduled-reports.
PostIssued == last'.op = "handlerLoaded" /\ last'.outcome = "post"

\* The step just taken ended a report handler.
HandlerEnds == Len(handlers') < Len(handlers)

BridgeArmed == \E x \in timers : x.bridge

\* The longest delay, in ticks, that is not beyond 2^31 - 1 milliseconds.
LongestDelay == maxTimeout \div (10 * 60 * 1000)

\* C13: whatever was called and whatever fired, with calls suspended in the
\* network or not, the platform holds at most one timeout of the scheduler
\* armed, and it is the one this.timeoutId names.
C13_SingleTimer ==
  /\ Cardinality(timers) <= 1
  /\ \A x \in timers : x.id = timeoutId

C13_Witness ==
  /\ handlers # <<>>
  /\ handlers[1].pc = "post"
  /\ boot.pc = "load"
  /\ last.op = "updateConfiguration"
  /\ Cardinality(timers) = 1

\* C14 (as claimed): when a report handler ends while the external store
\* holds an enabled configuration, and neither stop nor a disabling
\* updateConfiguration was called, a timeout is armed, whatever the outcome
\* of the handler's configuration reload and of its POST.
C14_AlwaysRearms ==
  [][(HandlerEnds /\ activado(storeConfig) /\ ~stopped /\ ~disabled) =>
       timers' # {}]_vars

\* C15 (as claimed): from stop() until the next initialize or
\* updateConfiguration call no timeout is armed and no POST is issued, a
\* handler having been suspended when stop() was called or not; a second
\* stop() changes nothing.
C15_StopSilences ==
  /\ [](stopped => timers = {})
  /\ [][(stopped /\ stopped') => ~PostIssued]_vars
  /\ [][(stopped /\ last'.op = "stop") =>
          UNCHANGED <<timeoutId, isActive, timers, currentConfig>>]_vars

\* C16 (as claimed): updateConfiguration holds the configuration given and
\* leaves a timeout armed exactly when it is enabled; from an
\* updateConfiguration with a disabled configuration until the next
\* initialize call or enabling updateConfiguration no timeout is armed and no
\* POST is issued, a handler having been suspended during the call or not.
C16_DisabledStaysIdle ==
  /\ [](disabled => timers = {})
  /\ [][(disabled /\ disabled') => ~PostIssued]_vars
  /\ [][last'.op = "updateConfiguration" =>
          (timers' # {} <=> activado(currentConfig'))]_vars

\* C17: no timeout is armed for longer than 2^31 - 1 ms, and a bridge
\* timeout is armed for 24 hours; when a bridge timeout fires no handler
\* starts and no POST is issued: the fire time is computed again, and the
\* timeout armed is a bridge once more while it is out of range and the
\* timeout for the fire time itself once it is in range (a fire time that
\* is not ahead of now being moved one day on); bridging does not go on for
\* ever.
C17_BridgeTimer ==
  /\ [](\A x \in timers :
          /\ x.delay <= LongestDelay
          /\ x.bridge => x.delay = TicksPerDay)
  /\ [][\A x \in timers :
          (x.bridge /\ last'.op = "timerFires") =>
            /\ handlers' = handlers
            /\ ~PostIssued
            /\ currentConfig' = currentConfig
            /\ activado(currentConfig) =>
                 LET computed == calculateNextReportTime(currentConfig, now)
                     next == IF computed > now THEN computed
                             ELSE computed + TicksPerDay
                 IN  /\ Cardinality(timers') = 1
                     /\ \A y \in timers' :
                          IF next - now > LongestDelay
                          THEN y.bridge /\ y.due = now + TicksPerDay
                          ELSE ~y.bridge /\ y.due = next]_vars
  /\ BridgeArmed ~> ~BridgeArmed

C17_Witness ==
  /\ last.op = "timerFires"
  /\ now = 3 * TicksPerDay
  /\ currentConfig # NoConfig
  /\ currentConfig.reporte_frecuencia = "monthly"
  /\ \E x \in timers : ~x.bridge /\ x.due = NewDate(0, 28, 0, 0)

\* C18: every timeout is armed with a positive delay and so comes due after
\* the instant it is armed at.  updateConfiguration with an enabled
\* configuration whose computed fire time is not ahead of now arms the
\* timeout for that time plus one day if that is ahead, and nothing if it is
\* not.
C18_PositiveDelay ==
  /\ [](\A x \in timers : x.delay > 0)
  /\ [][\A x \in timers' : x \notin timers => x.due > now]_vars
  /\ [][(last'.op = "updateConfiguration" /\ activado(currentConfig')) =>
          LET next == calculateNextReportTime(currentConfig', now)
          IN  /\ (next <= now /\ next + TicksPerDay > now) =>
                   \E x \in timers' :
                     timers' = {x} /\ x.due = next + TicksPerDay /\ ~x.bridge
              /\ next + TicksPerDay <= now => timers' = {}]_vars

C18_Witness ==
  /\ last.op = "updateConfiguration"
  /\ currentConfig.reporte_frecuencia = "daily"
  /\ now = setHours(now, 9, 0)
  /\ \E x \in timers : x.delay = TicksPerDay /\ x.due = now + TicksPerDay

\* The fire time the last getSchedulerStatus reported.
Reported == last.ret.nextReportTime

\* Today at the configured time.
TodayAtHora ==
  DayIndex(now) * TicksPerDay
    + splitHora(currentConfig.reporte_hora)[1] * TicksPerHour
    + splitHora(currentConfig.reporte_hora)[2] \div 10

\* C19: with an enabled daily configuration the fire time computed at any
\* instant is today at the configured time when now is not after it and that
\* time plus 24 hours when now is after it; it is never before now and never
\* more than 24 hours after now.
C19_DailyRecurrence ==
  (last.op = "getSchedulerStatus" /\ currentConfig.reporte_frecuencia = "daily") =>
    /\ now <= TodayAtHora => Reported = TodayAtHora
    /\ now > TodayAtHora => Reported = TodayAtHora + TicksPerDay
    /\ Reported >= now
    /\ Reported - now <= TicksPerDay

C19_Witness ==
  /\ last.op = "getSchedulerStatus"
  /\ currentConfig = AlertConfiguration(TRUE, "daily", "monday", "09:00")
  /\ now = 10 * TicksPerHour
  /\ Reported = TicksPerDay + 9 * TicksPerHour

\* The fewest days from the weekday of now to the target weekday.
SmallestOffset ==
  CHOOSE d \in 0..6 : (getDay(now) + d) % 7 = dayMap[currentConfig.reporte_dia]

\* C20: with an enabled weekly configuration the fire time computed at any
\* instant is the configured time of day on the target weekday, the fewest
\* days (0..6) on from today, or 7 days on when that is today and now is
\* already after today's configured time; it is never before now.
C20_WeeklyRecurrence ==
  (last.op = "getSchedulerStatus" /\ currentConfig.reporte_frecuencia = "weekly") =>
    /\ Reported = TodayAtHora
         + (IF SmallestOffset = 0 /\ now > TodayAtHora THEN 7 ELSE SmallestOffset)
           * TicksPerDay
    /\ getDay(Reported) = dayMap[currentConfig.reporte_dia]
    /\ Reported >= now
    /\ Reported - now <= 7 * TicksPerDay

C20_Witness ==
  /\ last.op = "getSchedulerStatus"
  /\ currentConfig = AlertConfiguration(TRUE, "weekly", "monday", "09:00")
  /\ now = 3 * TicksPerDay + 10 * TicksPerHour
  /\ getDay(now) = 3
  /\ Reported = 8 * TicksPerDay + 9 * TicksPerHour

\* The hour and minute of the configuration held.
HeldHour == splitHora(currentConfig.reporte_hora)[1]

HeldMinute == splitHora(currentConfig.reporte_hora)[2]

\* The biweekly candidates of the current month that lie after now: day,
\* day + 15 and day + days-in-month, as day numbers of the current month
\* at the configured time.
LaterCandidates ==
  LET m == getMonth(now)
      dia == parseInt(currentConfig.reporte_dia)
  IN  {x \in {NewDate(m, c, HeldHour, HeldMinute) :
                c \in {dia, dia + 15, dia + DaysInMonth(m)}} : x > now}

\* C21: with an enabled biweekly configuration the fire time computed at any
\* instant is the earliest of the three candidates (day, day + 15, day +
\* days-in-month of the current month, at the configured time) that lies
\* strictly after now, the day of the next month being the fallback when
\* none does; it is always strictly after now.
C21_BiweeklyRecurrence ==
  (last.op = "getSchedulerStatus" /\ currentConfig.reporte_frecuencia = "biweekly") =>
    /\ Reported > now
    /\ IF LaterCandidates # {}
       THEN /\ Reported \in LaterCandidates
            /\ \A x \in LaterCandidates : Reported <= x
       ELSE Reported = NewDate(getMonth(now) + 1, parseInt(currentConfig.reporte_dia),
                               HeldHour, HeldMinute)

\* C21 witness: computed after both day and day + 15 of the month have
\* passed, the fire time is the third candidate, the day of the next month.
C21_Witness ==
  /\ last.op = "getSchedulerStatus"
  /\ currentConfig.reporte_frecuencia = "biweekly"
  /\ currentConfig.reporte_dia = "15"
  /\ getMonth(now) = 0
  /\ getDate(now) = 31
  /\ getMonth(Reported) = 1
  /\ getDate(Reported) = 15

\* C22 (as claimed): with an enabled monthly configuration for day d the
\* fire time computed at any instant is day d of the current month at the
\* configured time if that has not passed and day d of the next month
\* otherwise; its day of the month is d, and the fire time computed just
\* after it lies in the month that follows.
C22_MonthlyRecurrence ==
  (last.op = "getSchedulerStatus" /\ currentConfig.reporte_frecuencia = "monthly") =>
    LET d == parseInt(currentConfig.reporte_dia)
        m == getMonth(now)
        passed == now > NewDate(m, d, HeldHour, HeldMinute)
    IN  /\ getDate(Reported) = d
        /\ getMonth(Reported) = IF passed THEN m + 1 ELSE m
        /\ Reported = setHours(Reported, HeldHour, HeldMinute)
        /\ getMonth(calculateNextReportTime(currentConfig, Reported + 1))
             = getMonth(Reported) + 1

\* C23 (as claimed): when initialize() resumes from its configuration load,
\* a timeout is armed if and only if a configuration was loaded and is
\* enabled: after a failed load, or with a disabled configuration, nothing is
\* armed, so nothing can fire and no report is sent until initialize or
\* updateConfiguration is called again.
C23_InitializeArmsIffEnabled ==
  [][last'.op = "initializeLoaded" =>
       ((timers' # {}) <=> activado(currentConfig'))]_vars

\* The armed timeout leads to a report fire at instant t: it is the report
\* timeout due at t, or a bridge timeout on the way to t.
FiresAt(t) ==
  \E x \in timers : IF x.bridge THEN x.due <= t ELSE x.due = t

\* C24 (as claimed): getSchedulerStatus changes neither the configuration
\* held, nor the armed timeout, nor the active flag, and with no scheduler
\* call in flight a fire time it reports is the instant at which the armed
\* timeout will next run the report handler.
C24_StatusConsistent ==
  [][last'.op = "getSchedulerStatus" =>
       /\ UNCHANGED <<currentConfig, timeoutId, timers, isActive>>
       /\ (last'.ret.nextReportTime # NoDate /\ handlers = <<>> /\ boot = CallIdle)
            => FiresAt(last'.ret.nextReportTime)]_vars

\* The ids of the entries of a list.
Ids(pending) == {pending[k].id : k \in DOMAIN pending}

\* The entry of a list that carries an id.
Entry(pending, transactionId) == pending[FindIndex(pending, transactionId)]

\* The entries of `pending` whose ids are in `ids`, in their order.
Among(pending, ids) == SelectSeq(pending, LAMBDA t : t.id \in ids)

\* The ids of a list, in its order.
IdsInOrder(pending) == [k \in DOMAIN pending |-> pending[k].id]

\* The entries other than transactionId are the same before and after the
\* step, in the same order.
OthersKept(transactionId) ==
  Among(lsPending', Ids(lsPending') \ {transactionId})
    = Among(lsPending, Ids(lsPending) \ {transactionId})

\* C25: in every step, an entry that stays queued keeps its payload, id and
\* created_at and its attempts stay or grow by one, and the entries that
\* stay keep their order; removePendingTransaction(id) and
\* incrementTransactionAttempts(id) change nothing when id is absent and
\* otherwise remove that entry, or add one to its attempts, and leave every
\* other entry as it was; a failed commit of a queued entry adds exactly one
\* to its attempts (or removes it at the ceiling) and touches no other.
C25_QueueEntriesKept ==
  [][
      /\ \A transactionId \in Ids(lsPending) \cap Ids(lsPending') :
          LET old == Entry(lsPending, transactionId)
              new == Entry(lsPending', transactionId)
          IN  /\ new.tx = old.tx
              /\ new.createdAt = old.createdAt
              /\ new.attempts \in {old.attempts, old.attempts + 1}
      /\ IdsInOrder(Among(lsPending', Ids(lsPending)))
            = IdsInOrder(Among(lsPending, Ids(lsPending')))
      /\ last'.op = "removePendingTransaction" =>
            IF last'.arg \in Ids(lsPending)
            THEN /\ last'.arg \notin Ids(lsPending')
                 /\ OthersKept(last'.arg)
            ELSE lsPending' = lsPending
      /\ last'.op = "incrementTransactionAttempts" =>
            IF last'.arg \in Ids(lsPending)
            THEN /\ Entry(lsPending', last'.arg).attempts
                      = Entry(lsPending, last'.arg).attempts + 1
                 /\ Ids(lsPending') = Ids(lsPending)
                 /\ OthersKept(last'.arg)
            ELSE lsPending' = lsPending
      /\ (last'.op = "syncResponse" /\ last'.outcome # "ok") =>
            LET failedId == Cur("manual").id
            IN  IF failedId \in Ids(lsPending)
                THEN /\ failedId \in Ids(lsPending') =>
                           Entry(lsPending', failedId).attempts
                             = Entry(lsPending, failedId).attempts + 1
                     /\ OthersKept(failedId)
                ELSE lsPending' = lsPending
     ]_vars

\* C25 witness: a failed commit has added one to the attempts of the first
\* of two queued entries and left the second as it was.
C25_Witness ==
  /\ last.op = "syncResponse"
  /\ last.outcome # "ok"
  /\ Len(lsPending) = 2
  /\ lsPending[1].attempts = 1
  /\ lsPending[2].attempts = 0

\* The service's own auto-sync starts a pass in this step.
AutoPassStarts == sync["auto"].pc = "idle" /\ sync'["auto"].pc = "fetch"

\* setTimeout(..., 30000) of the catch in autoSyncPendingTransactions.
RetryDelay == 30000

\* The retry timeouts armed.
Retries(armed) == {k \in DOMAIN armed : armed[k] = RetryDelay}

\* C26 (as claimed): the service's online handler starts no pass itself
\* but arms the settle timeout, its passes start only when one of its
\* timeouts fires, and when such a pass ends with failed entries exactly
\* one retry timeout of 30 seconds is armed.
C26_SettleThenSingleRetry ==
  [][/\ last'.op = "online" =>
          /\ ~AutoPassStarts
          /\ listening => autoTimers' = Append(autoTimers, SettleDelay)
     /\ AutoPassStarts => last'.op = "autoSyncPendingTransactions"
     /\ (last'.op = "syncResponse" /\ last'.arg = "auto" /\ last'.ret.at = "end"
           /\ last'.ret.failed > 0)
          => Cardinality(Retries(autoTimers')) = 1
    ]_vars

\* Something is set to drain the queue: a pass is in flight or a timeout
\* of the auto-sync is armed.
DrainPending ==
  \/ \E c \in SyncCallers : sync[c].pc = "fetch"
  \/ autoTimers # <<>>

\* C27 (as claimed): when connectivity is restored while the queue is not
\* empty, the queue is drained without any manual action, whatever was
\* called before; so at that moment a pass is in flight or a timeout is
\* armed that will start one.
C27_RestoredDrains ==
  (last.op = "online" /\ lsPending # <<>>) => DrainPending

\* C28 (as claimed): once cleanup() has removed the online handler, the
\* service's auto-sync starts no pass, neither from a later online event nor
\* from a timeout armed before cleanup.
C28_CleanupSilences ==
  [][~listening => ~AutoPassStarts]_vars

\* The day is one the frequency can be computed with: a weekday name for
\* weekly, a day of the month for biweekly and monthly.
ValidDay(frequency, day) ==
  /\ frequency = "weekly" => day \in DOMAIN dayMap
  /\ frequency \in {"biweekly", "monthly"} =>
       day \in {MonthDays[k] : k \in DOMAIN MonthDays}

ValidConfig(config) ==
  config # NoConfig => ValidDay(config.reporte_frecuencia, config.reporte_dia)

\* C29: the configuration the scheduler holds, and so every configuration
\* it computes a fire time from, carries a day that is valid for its
\* frequency, and so do the row of the store, the row the page holds, and
\* the form after every change of frequency, saved or not yet.
C29_DayMatchesFrequency ==
  /\ ValidConfig(currentConfig)
  /\ ValidConfig(storeConfig)
  /\ ValidConfig(alertConfig)
  /\ ValidDay(reportConfig.frequency, reportConfig.day)
  /\ savingConfig # CallIdle =>
       ValidDay(savingConfig.reportConfig.frequency, savingConfig.reportConfig.day)

\* C29 witness: the frequency was changed from weekly to monthly, the form
\* was saved, and the scheduler has computed the fire time and armed a
\* timeout with the monthly configuration and the day the change reset.
C29_Witness ==
  /\ last.op = "settingsDone"
  /\ activado(currentConfig)
  /\ currentConfig.reporte_frecuencia = "monthly"
  /\ currentConfig.reporte_dia = "1"
  /\ timers # {}

\* Tab w completes an enqueue in this step.
Enqueues(w) == enq[w].pc = "write" /\ enq'[w].pc = "idle" /\ lsPending' # lsPending

\* C30: an enqueue writes the list it read with exactly one new entry at
\* its end, over whatever the store holds. So when no other tab has written
\* since its read (always, with a single tab) the stored queue keeps its
\* entries and grows by exactly one, and when another tab has written in
\* between, the write drops that tab's entries: the last writer wins at the
\* level of the whole list.
C30_WholeListLastWriteWins ==
  [][
     \A w \in Writers : Enqueues(w) =>
       /\ Len(lsPending') = Len(enq[w].pending) + 1
       /\ SubSeq(lsPending', 1, Len(enq[w].pending)) = enq[w].pending
       /\ lsPending'[Len(lsPending')].tx = enq[w].transaction
       /\ lsPending'[Len(lsPending')].id \notin
            {lsPending[k].id : k \in DOMAIN lsPending}
       /\ enq[w].pending = lsPending => Len(lsPending') = Len(lsPending) + 1
    ]_vars

\* C30 witness: both tabs have completed one enqueue each, two ids were
\* handed out, and the stored queue holds only one of the two entries.
C30_Witness ==
  /\ \A w \in Writers : enq[w].pc = "idle"
  /\ nextId = 3
  /\ Len(lsPending) = 1
  /\ last.op = "enqueueWrite"
  /\ last.ret.at = "return"

\* The ids of the entries of a list.
IdSet(pending) == {pending[k].id : k \in DOMAIN pending}

\* The ids stored in the queue that the snapshot of call c does not hold:
\* the entries enqueued since the pass began.
EnqueuedSince(c) == IdSet(lsPending) \ IdSet(sync[c].pending)

\* C31: while a sync pass is suspended in a commit, an entry enqueued since
\* the pass began is not one the pass sends (the pass keeps to its snapshot),
\* and the step the pass takes when the commit settles (dequeue, increment,
\* drop at the ceiling) leaves every such entry in the queue, unchanged,
\* in its order, behind every entry of the snapshot that survives.
C31_EnqueuedDuringPassKept ==
  [][
     \A c \in SyncCallers :
       (sync[c].pc = "fetch" /\ last'.op = "syncResponse" /\ last'.arg = c) =>
         /\ sync[c].pending[sync[c].i].id \notin EnqueuedSince(c)
         /\ sync'[c].pc = "fetch" => sync'[c].pending = sync[c].pending
         /\ Among(lsPending', EnqueuedSince(c)) = Among(lsPending, EnqueuedSince(c))
         /\ \A j, k \in DOMAIN lsPending' :
              (j < k /\ lsPending'[j].id \in EnqueuedSince(c)) =>
                lsPending'[k].id \in EnqueuedSince(c)
    ]_vars

\* C31 witness: a pass over one entry has ended with that entry failed, and
\* the queue holds two entries: the survivor, and behind it, untouched, the
\* one processTransaction enqueued while the pass was suspended.
C31_Witness ==
  /\ last.op = "syncResponse"
  /\ last.ret.at = "end"
  /\ last.ret.synced + last.ret.failed = 1
  /\ last.ret.failed = 1
  /\ Len(lsPending) = 2
  /\ lsPending[1].attempts = 1
  /\ lsPending[2].attempts = 0

\* The snapshot entry whose commit call c is suspended in.
InFlight(c) == sync[c].pending[sync[c].i]

\* C32 (state part): an entry a sync pass has sent and is waiting on is
\* still stored in the queue, so no commit for it has succeeded before.
C32_SentOnlyWhileQueued ==
  \A c \in SyncCallers :
    sync[c].pc = "fetch" => InFlight(c).id \in IdSet(lsPending)

\* C32: every transaction is committed at most once.  A successful commit
\* of a sync pass is for an entry that is still queued and takes it out of
\* the queue in the same step; a successful immediate commit never queues
\* its transaction; a step that queues a transaction commits nothing and
\* gives it an id never used before; and no pass is ever waiting on an
\* entry that has left the queue.
C32_CommittedAtMostOnce ==
  [][
     /\ C32_SentOnlyWhileQueued'
     /\ \A c \in SyncCallers :
          (sync[c].pc = "fetch" /\ last'.op = "syncResponse" /\ last'.arg = c
             /\ last'.outcome = "ok") =>
            /\ InFlight(c).id \in IdSet(lsPending)
            /\ InFlight(c).id \notin IdSet(lsPending')
            /\ committed' = Append(committed, InFlight(c).tx)
     /\ (last'.op = "processTransactionResponse" /\ last'.outcome = "ok") =>
          lsPending' = lsPending /\ committed' = Append(committed, pt.tx)
     /\ IdSet(lsPending') \ IdSet(lsPending) # {} =>
          /\ IdSet(lsPending') \ IdSet(lsPending) = {nextId}
          /\ nextId' > nextId
          /\ committed' = committed
     /\ \A k \in DOMAIN lsPending' : lsPending'[k].id < nextId'
     /\ Len(committed') <= Len(committed) + 1
    ]_vars

\* C32 witness: two transactions were submitted, one committed at once and
\* one queued after a failed commit and committed by a sync pass; the
\* endpoint holds exactly two records and the queue is empty.
C32_Witness ==
  /\ last.op = "syncResponse"
  /\ last.outcome = "ok"
  /\ last.ret.at = "end"
  /\ Len(committed) = 2
  /\ nextId = 2
  /\ lsPending = <<>>

\* The payload is waiting in the queue.
Waiting(transaction) == \E k \in DOMAIN lsPending : lsPending[k].tx = transaction

\* C33: the endpoint never holds the entry leg of a transfer ahead of its
\* exit leg, and never holds the entry leg while the exit leg, submitted
\* before it, is still waiting in the queue.
C33_TransferInOrder ==
  /\ \A j, k \in DOMAIN committed :
       (committed[j] = "entrada" /\ committed[k] = "salida") => k < j
  /\ (\E k \in DOMAIN committed : committed[k] = "entrada") => ~Waiting("salida")

\* The snapshot entries of call c that are at the retry ceiling: the only
\* ones the pass may drop.
AtCeiling(c) ==
  Cardinality({k \in DOMAIN sync[c].pending : ceilingReached(sync[c].pending[k])})

\* C34: whenever call c resumes from a commit and nothing was enqueued
\* since its pass began, its counters after the step account for the
\* queue: the stored entries are the failed ones and those not yet sent,
\* synced + failed never exceeds the entries handled, the shortfall (the
\* entries dropped) is at most the number of snapshot entries at the
\* ceiling, and no counter is negative.  At the end of the pass, when
\* nothing is left to send, the queue length is `failed` and synced +
\* failed + dropped is the queue length at the start.
C34_SyncAccounting ==
  [][
     \A c \in SyncCallers :
       (sync[c].pc = "fetch" /\ last'.op = "syncResponse" /\ last'.arg = c
          /\ EnqueuedSince(c) = {}) =>
         LET ended == sync'[c].pc = "idle"
             synced == IF ended THEN last'.ret.synced ELSE sync'[c].synced
             failed == IF ended THEN last'.ret.failed ELSE sync'[c].failed
             handled == sync[c].i
             dropped == handled - synced - failed
         IN  /\ ended <=> last'.ret.at = "end"
             /\ ended <=> handled = Len(sync[c].pending)
             /\ synced >= 0
             /\ failed >= 0
             /\ dropped >= 0
             /\ dropped <= AtCeiling(c)
             /\ Len(lsPending') = failed + (Len(sync[c].pending) - handled)
             /\ synced = sync[c].synced + (Len(committed') - Len(committed))
    ]_vars

\* C34 witness: a pass over one entry has ended with {synced: 0, failed: 0}
\* and an empty queue although nothing was committed: the entry was dropped
\* at the ceiling, and 0 + 0 + 1 is the queue length at the start.
C34_Witness ==
  /\ last.op = "syncResponse"
  /\ last.ret.at = "end"
  /\ last.ret.synced = 0
  /\ last.ret.failed = 0
  /\ lsPending = <<>>
  /\ committed = <<>>
  /\ nextId = 2

\* A pass is suspended in a commit.
PassRunning == \E c \in SyncCallers : sync[c].pc = "fetch"

\* C35: the in-flight flag is set exactly while a pass is suspended in a
\* commit, and whenever it is set it is cleared later: every pass that
\* starts ends with the flag cleared, whatever its fetches answer and
\* whether or not the store can be read or written meanwhile.
C35_FlagReleased ==
  /\ [](syncInProgress <=> PassRunning)
  /\ (syncInProgress ~> ~syncInProgress)

\* C35 witness: a pass has ended with the flag cleared although the store
\* refused the write that removes the entry it committed.
C35_Witness ==
  /\ last.op = "syncResponse"
  /\ last.ret.at = "end"
  /\ last.ret.synced = 1
  /\ storageFull
  /\ ~syncInProgress
  /\ Len(committed) = 1
  /\ Len(lsPending) = 1
  /\ nextId = 2

\* The step is one in which addPendingTransaction is called: directly, by
\* processTransaction offline, or by processTransaction after its commit
\* failed.
EnqueueAttempted ==
  \/ last'.op = "addPendingTransaction"
  \/ last'.op = "processTransaction" /\ ~online
  \/ last'.op = "processTransactionResponse" /\ last'.outcome # "ok"

\* C36: an enqueue whose write the store refuses leaves the stored queue
\* and the ids as they were and ends by raising, out of
\* addPendingTransaction and out of processTransaction on its offline path
\* and on its path after a failed commit; and an id is handed to the
\* caller only for an entry that is in the store.
C36_FailedEnqueuePropagates ==
  [][
     /\ (EnqueueAttempted /\ storageFull) =>
          /\ last'.ret.at = "throw"
          /\ lsPending' = lsPending
          /\ nextId' = nextId
     /\ (EnqueueAttempted /\ last'.ret.at = "return") =>
          /\ ~storageFull
          /\ ~InQueue(lsPending, last'.ret.transactionId)
          /\ InQueue(lsPending', last'.ret.transactionId)
          /\ Len(lsPending') = Len(lsPending) + 1
     /\ (EnqueueAttempted /\ ~storageFull) => last'.ret.at = "return"
    ]_vars

\* C36 witness: online, the immediate commit failed and the store refused
\* the enqueue that followed: processTransaction raised and the queue still
\* holds only the entry it held before.
C36_Witness ==
  /\ last.op = "processTransactionResponse"
  /\ last.outcome = "http"
  /\ last.ret.at = "throw"
  /\ storageFull
  /\ online
  /\ Len(lsPending) = 1
  /\ nextId = 2

\* The executions suspended in their POST.
Posting ==
  Cardinality({k \in DOMAIN handlers : handlers[k].pc \in {"post", "forcedPost"}})

\* An execution, genuine or forced, resumes from its reload in this step.
Reloaded == last'.op \in {"handlerLoaded", "forcedLoaded"}

\* C37: a POST is issued only in the step in which an execution, genuine
\* or forced, resumes from its reload of the configuration, and only if
\* the configuration reloaded, which the scheduler holds from then on, is
\* the row of the store and is enabled; when the reload brought a disabled
\* row or nothing, the execution ends there and nothing is posted.
C37_PostOnlyWhenEnabled ==
  [][
     /\ Posting' > Posting =>
          /\ Reloaded
          /\ last'.outcome = "post"
          /\ currentConfig' = storeConfig
          /\ activado(currentConfig')
          /\ Len(handlers') = Len(handlers)
     /\ (Reloaded /\ ~activado(currentConfig')) =>
          /\ last'.outcome = "skip"
          /\ Posting' = Posting
          /\ Len(handlers') = Len(handlers) - 1
     /\ (Reloaded /\ activado(currentConfig')) => Posting' = Posting + 1
    ]_vars

\* C37 witness: a forced execution, called on a scheduler that was never
\* initialized, has reloaded an enabled row and issued its POST.
C37_Witness ==
  /\ last.op = "forcedLoaded"
  /\ last.outcome = "post"
  /\ ~isActive
  /\ activado(currentConfig)
  /\ Posting = 1

\* C38 (as claimed): the isActive that getSchedulerStatus reports is true
\* exactly when a timeout of the scheduler is armed.
C38_ActiveIffArmed ==
  [][last'.op = "getSchedulerStatus" =>
       (last'.ret.isActive <=> timers # {})]_vars

\* C39: the service's auto-sync starts a pass only while the switch is on,
\* the device is online and the queue is not empty, whenever the timeout
\* that runs it was armed; and with the switch off the online handler arms
\* nothing, while a call of syncPendingTransactions from the button, made
\* with no pass in flight and a queue that is not empty, starts a pass as
\* ever.
C39_SwitchSilencesAutoSync ==
  [][
     /\ AutoPassStarts =>
          /\ autoSyncEnabled
          /\ online
          /\ lsPending # <<>>
          /\ last'.op = "autoSyncPendingTransactions"
     /\ (~autoSyncEnabled /\ last'.op = "online") => autoTimers' = autoTimers
     /\ (sync["manual"].pc = "idle" /\ last'.op = "syncPendingTransactions"
           /\ last'.arg = "manual" /\ ~syncInProgress /\ lsPending # <<>>) =>
          /\ sync'["manual"].pc = "fetch"
          /\ syncInProgress'
    ]_vars

\* C39 witness: with the switch off, a timeout of the auto-sync that was
\* armed before has fired online over a queue that is not empty with no
\* pass in flight, and no pass was started.
C39_Witness ==
  /\ last.op = "autoSyncPendingTransactions"
  /\ ~autoSyncEnabled
  /\ online
  /\ lsPending # <<>>
  /\ ~syncInProgress
  /\ sync["auto"].pc = "idle"

====
